---- MODULE Spec2Model ----
(***************************************************************************)
(* A model of mriqc1: the cancellable process supervisor                   *)
(* (src/cancellable_process/mod.rs), the participant job (src/mriqc.rs)    *)
(* and the orchestrating stream pipeline of main (src/main.rs).            *)
(*                                                                         *)
(* SpecChild drives one CancellableChild through arbitrary sequences of    *)
(* wait(), try_wait() and wait_with_output() calls with arbitrary          *)
(* predicate answers and process timing.                                   *)
(*                                                                         *)
(* Spec is a whole run of main: the participants' stream, the take_while   *)
(* cut-off, buffer_unordered, the jobs, the warning filter and the final   *)
(* outcome, with the interrupt flag, the clock and the tool processes as   *)
(* the environment.                                                        *)
(***************************************************************************)
EXTENDS Integers, Sequences, FiniteSets, TLC

VARIABLES
    \* SpecChild: the supervisor, the process, the future and the history
    child, proc, fut, hist,
    \* Spec: the options, the interrupt flag, the jobs, the run, the last step
    cfg, interrupted, jobs, run, ev,
    \* SpecFs: the filesystem, the values that own parts of it, the
    \* destructors still to run, the last constructor call
    disk, heap, todo, fsev,
    \* SpecArgs: the options of one job, the Command it builds and its result
    cmdl,
    \* SpecTemp: a NamedTempDir, a TempSymlink and the filesystem they are on
    tmp

vars == <<child, proc, fut, hist, cfg, interrupted, jobs, run, ev,
          disk, heap, todo, fsev, cmdl, tmp>>
childVars == <<child, proc, fut, hist>>
mainVars == <<cfg, interrupted, jobs, run, ev>>
fsVars == <<disk, heap, todo, fsev>>
cmdVars == <<cmdl>>
tmpVars == <<tmp>>

---------------------------------------------------------------------------
(* Bounds of the model.                                                    *)

\* Exit codes a process may return are 0..MaxExitCode.
MaxExitCode == 2
\* Number of wait() calls made on one CancellableChild.
MaxWaits == 3
\* Participants on the command line are 1..NPart.
NPart == 3
\* The option -n (n_par) ranges over 1..MaxPar.
MaxPar == 2
\* The option timeout ranges over 0..MaxTimeout ticks of the clock.
MaxTimeout == 0
\* The extra arguments passed through to the tool are at most MaxExtra.
MaxExtra == 2

---------------------------------------------------------------------------
(* Option<T>: None is the empty sequence, Some(x) the one-element one.     *)

None == <<>>
Some(x) == <<x>>
IsSome(o) == o # <<>>
Unwrap(o) == o[1]

\* enum CancelSignal
CancelSignal == {"Interrupt", "Kill"}
\* What the closure check_cancel may return: Option<CancelSignal>.
CancelAnswers == {None} \cup {Some(s) : s \in CancelSignal}

\* A std::process::ExitStatus is modelled by its code(): Some(n) for a
\* process that exited with code n, None for one terminated by a signal.
RealStatuses == {None} \cup {Some(n) : n \in 0..MaxExitCode}
\* std::process::ExitStatus::success()
Success(status) == status = Some(0)

\* The signal libc::kill delivers for a CancelSignal.
SignalOf(cancel_signal) ==
    IF cancel_signal = "Interrupt" THEN "SIGINT" ELSE "SIGKILL"

---------------------------------------------------------------------------
(* tokio::process::Child as the supervisor sees it.  proc is the operating *)
(* system's process: proc.exited is Some(status) once it has terminated,   *)
(* proc.eof says its output pipes have been closed and drained.            *)
(* child.fused is tokio's cache of the reaped status (FusedChild::Done).   *)

\* Child::id(): the pid while the child has not been reaped.
ChildId(ch) == IF ch.fused = None THEN Some("pid") ELSE None

\* One poll of the future of Child::wait(): ready with the status as soon
\* as the process has terminated; err says waitpid failed.
PollChildWait(ch, pr, err) ==
    IF IsSome(ch.fused) THEN [tag |-> "Ok", val |-> Unwrap(ch.fused)]
    ELSE IF err THEN [tag |-> "Err", val |-> None]
    ELSE IF IsSome(pr.exited) THEN [tag |-> "Ok", val |-> Unwrap(pr.exited)]
    ELSE [tag |-> "Pending", val |-> None]

\* One poll of the future of Child::wait_with_output(): ready once the
\* process has terminated and both pipes have been read to their end.
PollChildWaitWithOutput(ch, pr, err) ==
    IF err /\ ch.fused = None THEN [tag |-> "Err", val |-> None]
    ELSE IF IsSome(pr.exited) /\ pr.eof
         THEN [tag |-> "Ok", val |-> [status |-> Unwrap(pr.exited), stdout |-> "out", stderr |-> "err"]]
    ELSE [tag |-> "Pending", val |-> None]

\* Child::try_wait(): Ok(Some(status)) once terminated, Ok(None) before.
ChildTryWait(ch, pr, err) ==
    IF IsSome(ch.fused) THEN [tag |-> "Ok", val |-> ch.fused]
    ELSE IF err THEN [tag |-> "Err", val |-> None]
    ELSE [tag |-> "Ok", val |-> pr.exited]

\* The reaped status tokio caches after a poll or try_wait saw the exit.
Fuse(ch, pr, seen) ==
    IF seen /\ ch.fused = None /\ IsSome(pr.exited) THEN pr.exited ELSE ch.fused

---------------------------------------------------------------------------
(* CancellableChild                                                        *)

\* CancellableChild::new
NewChild == [how_cancelled |-> None, exit_status |-> None,
             fused |-> None, consumed |-> FALSE]

NoFuture == [kind |-> "none", id |-> None, how_cancelled |-> None]

\* CancellableChild::wait: the future borrows how_cancelled and
\* exit_status from the child and keeps the id read at the call.
WaitFuture(ch) == [kind |-> "wait", id |-> ChildId(ch), how_cancelled |-> None]

\* CancellableChild::wait_with_output: the future owns a copy of
\* how_cancelled; exit_status is not carried over.
WaitOutputFuture(ch) ==
    [kind |-> "output", id |-> ChildId(ch), how_cancelled |-> ch.how_cancelled]

\* The branch of poll taken when the inner future is pending: remember the
\* predicate's answer, signal the process if there is an answer and an id.
\* Yields the recorded how_cancelled, the value returned and the signal sent.
\* Faulty variant: the signals of the two reasons are swapped
CancelBranchSwapped(how_cancelled, cancel_signal, id) ==
    [how_cancelled |-> cancel_signal,
     ret |-> IF IsSome(cancel_signal)
             THEN [tag |-> "Ok", how_cancelled |-> cancel_signal, val |-> None]
             ELSE [tag |-> "Pending", how_cancelled |-> None, val |-> None],
     sig |-> IF IsSome(cancel_signal) /\ IsSome(id)
             THEN Some(IF Unwrap(cancel_signal) = "Interrupt" THEN "SIGKILL" ELSE "SIGINT")
             ELSE None]

\* Faulty variant: the value returned on cancellation does not say so
CancelBranchUnreported(how_cancelled, cancel_signal, id) ==
    [how_cancelled |-> cancel_signal,
     ret |-> IF IsSome(cancel_signal)
             THEN [tag |-> "Ok", how_cancelled |-> None, val |-> None]
             ELSE [tag |-> "Pending", how_cancelled |-> None, val |-> None],
     sig |-> IF IsSome(cancel_signal) /\ IsSome(id)
             THEN Some(SignalOf(Unwrap(cancel_signal))) ELSE None]

\* Faulty variant: a signal that could not be delivered is reported as an error
CancelBranchChecked(how_cancelled, cancel_signal, id) ==
    [how_cancelled |-> cancel_signal,
     ret |-> IF IsSome(cancel_signal)
             THEN IF IsSome(id) /\ IsSome(proc.exited)
                  THEN [tag |-> "Err", how_cancelled |-> None, val |-> None]
                  ELSE [tag |-> "Ok", how_cancelled |-> cancel_signal, val |-> None]
             ELSE [tag |-> "Pending", how_cancelled |-> None, val |-> None],
     sig |-> IF IsSome(cancel_signal) /\ IsSome(id)
             THEN Some(SignalOf(Unwrap(cancel_signal))) ELSE None]

CancelBranch(how_cancelled, cancel_signal, id) ==
    [how_cancelled |-> cancel_signal,
     ret |-> IF IsSome(cancel_signal)
             THEN [tag |-> "Ok", how_cancelled |-> cancel_signal, val |-> None]
             ELSE [tag |-> "Pending", how_cancelled |-> None, val |-> None],
     sig |-> IF IsSome(cancel_signal) /\ IsSome(id)
             THEN Some(SignalOf(Unwrap(cancel_signal))) ELSE None]

\* ChildWaitFuture::poll.  cancel_signal is what check_cancel returns in
\* this cycle and r what polling the inner future gives; neither is
\* consulted (polled = FALSE) when the exit status is already recorded.
\* Faulty variant: cancellation is decided before completion is looked at
ChildWaitFuturePollCancelFirst(ch, id, cancel_signal, r) ==
    IF IsSome(cancel_signal)
    THEN LET b == CancelBranch(ch.how_cancelled, cancel_signal, id) IN
         [how_cancelled |-> b.how_cancelled, exit_status |-> ch.exit_status,
          ret |-> b.ret, sig |-> b.sig, polled |-> TRUE]
    ELSE IF IsSome(ch.exit_status)
    THEN [how_cancelled |-> ch.how_cancelled, exit_status |-> ch.exit_status,
          ret |-> [tag |-> "Ok", how_cancelled |-> ch.how_cancelled, val |-> ch.exit_status],
          sig |-> None, polled |-> FALSE]
    ELSE IF r.tag = "Ok"
    THEN [how_cancelled |-> ch.how_cancelled, exit_status |-> Some(r.val),
          ret |-> [tag |-> "Ok", how_cancelled |-> ch.how_cancelled, val |-> Some(r.val)],
          sig |-> None, polled |-> TRUE]
    ELSE IF r.tag = "Err"
    THEN [how_cancelled |-> ch.how_cancelled, exit_status |-> ch.exit_status,
          ret |-> [tag |-> "Err", how_cancelled |-> None, val |-> None],
          sig |-> None, polled |-> TRUE]
    ELSE [how_cancelled |-> None, exit_status |-> ch.exit_status,
          ret |-> [tag |-> "Pending", how_cancelled |-> None, val |-> None],
          sig |-> None, polled |-> TRUE]

\* Faulty variant: a pending process resolves the wait with a made-up success
ChildWaitFuturePollEager(ch, id, cancel_signal, r) ==
    IF IsSome(ch.exit_status)
    THEN [how_cancelled |-> ch.how_cancelled, exit_status |-> ch.exit_status,
          ret |-> [tag |-> "Ok", how_cancelled |-> ch.how_cancelled, val |-> ch.exit_status],
          sig |-> None, polled |-> FALSE]
    ELSE IF r.tag = "Err"
    THEN [how_cancelled |-> ch.how_cancelled, exit_status |-> ch.exit_status,
          ret |-> [tag |-> "Err", how_cancelled |-> None, val |-> None],
          sig |-> None, polled |-> TRUE]
    ELSE LET st == IF r.tag = "Ok" THEN r.val ELSE Some(0) IN
         [how_cancelled |-> ch.how_cancelled, exit_status |-> Some(st),
          ret |-> [tag |-> "Ok", how_cancelled |-> ch.how_cancelled, val |-> Some(st)],
          sig |-> None, polled |-> TRUE]

ChildWaitFuturePoll(ch, id, cancel_signal, r) ==
    IF IsSome(ch.exit_status)
    THEN [how_cancelled |-> ch.how_cancelled, exit_status |-> ch.exit_status,
          ret |-> [tag |-> "Ok", how_cancelled |-> ch.how_cancelled, val |-> ch.exit_status],
          sig |-> None, polled |-> FALSE]
    ELSE IF r.tag = "Ok"
    THEN [how_cancelled |-> ch.how_cancelled, exit_status |-> Some(r.val),
          ret |-> [tag |-> "Ok", how_cancelled |-> ch.how_cancelled, val |-> Some(r.val)],
          sig |-> None, polled |-> TRUE]
    ELSE IF r.tag = "Err"
    THEN [how_cancelled |-> ch.how_cancelled, exit_status |-> ch.exit_status,
          ret |-> [tag |-> "Err", how_cancelled |-> None, val |-> None],
          sig |-> None, polled |-> TRUE]
    ELSE LET b == CancelBranch(ch.how_cancelled, cancel_signal, id) IN
         [how_cancelled |-> b.how_cancelled, exit_status |-> ch.exit_status,
          ret |-> b.ret, sig |-> b.sig, polled |-> TRUE]

\* ChildWaitOutputFuture::poll.  The future has no exit_status to look at:
\* check_cancel and the inner future are consulted in every cycle.
ChildWaitOutputFuturePoll(how_cancelled, id, cancel_signal, r) ==
    IF r.tag = "Ok"
    THEN [how_cancelled |-> how_cancelled,
          ret |-> [tag |-> "Ok", how_cancelled |-> how_cancelled, val |-> Some(r.val)],
          sig |-> None]
    ELSE IF r.tag = "Err"
    THEN [how_cancelled |-> how_cancelled,
          ret |-> [tag |-> "Err", how_cancelled |-> None, val |-> None],
          sig |-> None]
    ELSE CancelBranch(how_cancelled, cancel_signal, id)

\* CancellableChild::try_wait: the Option returned by Child::try_wait is
\* stored in exit_status unless the call failed.
CancellableTryWait(ch, r) ==
    IF r.tag = "Err"
    THEN [exit_status |-> ch.exit_status,
          ret |-> [tag |-> "Err", how_cancelled |-> None, val |-> None]]
    ELSE [exit_status |-> r.val,
          ret |-> IF IsSome(r.val)
                  THEN [tag |-> "Ok", how_cancelled |-> ch.how_cancelled, val |-> r.val]
                  ELSE [tag |-> "OkNone", how_cancelled |-> None, val |-> None]]

---------------------------------------------------------------------------
(* SpecChild: one CancellableChild under arbitrary use.                    *)
(* hist records what the calls returned and did:                           *)
(*   sigs      the signals sent with libc::kill, in order                  *)
(*   nwaits    the number of wait() calls made                             *)
(*   fired     check_cancel has returned a reason at least once            *)
(*   preempted check_cancel returned a reason in a cycle in which the      *)
(*             inner future was pending                                    *)
(*   last      the value the last call or cycle returned, and by which op  *)
(*   cycle     the last poll cycle: the predicate's answer, what the inner *)
(*             future gave, the identifier the future holds, the signal    *)
(*             sent in that cycle and what libc::kill returned for it (the *)
(*             code discards that value)                                   *)
(*   twin      for a cycle of wait_with_output(): what a cycle of wait()   *)
(*             returns on the same supervisor, process and answer          *)

NoCycle == [op |-> "none", polled |-> FALSE, answer |-> None, inner |-> "none", sig |-> None,
            id |-> None, kill |-> None]
NoTwin == [tag |-> "none", how_cancelled |-> None, val |-> None]

\* What libc::kill returns for a signal sent in a cycle: 0, or -1 (ESRCH)
\* when the process behind the identifier has already been reaped.  The
\* inner future is polled before the signal is sent, and its poll reaps a
\* process that has terminated.
libc_kill(sig, pr) ==
    IF sig = None THEN None ELSE Some(IF IsSome(pr.exited) THEN -1 ELSE 0)

\* The history after one poll cycle of operation op.
AfterCycle(op, polled, c, r, ret, sig) ==
    [hist EXCEPT
        !.sigs = IF IsSome(sig) THEN Append(@, Unwrap(sig)) ELSE @,
        !.fired = @ \/ (polled /\ IsSome(c)),
        !.preempted = @ \/ (polled /\ IsSome(c) /\ r.tag = "Pending"),
        !.last = [op |-> op, tag |-> ret.tag, how_cancelled |-> ret.how_cancelled, val |-> ret.val],
        !.cycle = [op |-> op, polled |-> polled, answer |-> IF polled THEN c ELSE None,
                   inner |-> IF polled THEN r.tag ELSE "none", sig |-> sig,
                   id |-> fut.id, kill |-> libc_kill(sig, proc)],
        !.twin = NoTwin]

\* let fut = child.wait();
Wait ==
    /\ fut.kind = "none" /\ ~child.consumed
    /\ hist.nwaits < MaxWaits
    /\ fut' = WaitFuture(child)
    /\ hist' = [hist EXCEPT !.nwaits = @ + 1]
    /\ UNCHANGED <<child, proc>>
    /\ UNCHANGED <<mainVars, fsVars, cmdVars, tmpVars>>

\* One scheduling cycle of the future of wait().
WaitPoll ==
    /\ fut.kind = "wait"
    /\ \E c \in CancelAnswers, err \in BOOLEAN :
         LET r == PollChildWait(child, proc, err)
             p == ChildWaitFuturePoll(child, fut.id, c, r)
         IN /\ child' = [child EXCEPT !.how_cancelled = p.how_cancelled,
                                      !.exit_status = p.exit_status,
                                      !.fused = Fuse(child, proc, p.polled /\ r.tag = "Ok")]
            /\ fut' = IF p.ret.tag = "Pending" THEN fut ELSE NoFuture
            /\ hist' = AfterCycle("wait", p.polled, c, r, p.ret, p.sig)
    /\ UNCHANGED proc
    /\ UNCHANGED <<mainVars, fsVars, cmdVars, tmpVars>>

\* child.try_wait()
TryWait ==
    /\ fut.kind = "none" /\ ~child.consumed
    /\ \E err \in BOOLEAN :
         LET r == ChildTryWait(child, proc, err)
             p == CancellableTryWait(child, r)
         IN /\ child' = [child EXCEPT !.exit_status = p.exit_status,
                                      !.fused = Fuse(child, proc, r.tag = "Ok")]
            /\ hist' = [hist EXCEPT !.last = [op |-> "try_wait", tag |-> p.ret.tag,
                                              how_cancelled |-> p.ret.how_cancelled,
                                              val |-> p.ret.val],
                                    !.cycle = NoCycle,
                                    !.twin = NoTwin]
    /\ UNCHANGED <<proc, fut>>
    /\ UNCHANGED <<mainVars, fsVars, cmdVars, tmpVars>>

\* let fut = child.wait_with_output();  (consumes the child)
WaitWithOutput ==
    /\ fut.kind = "none" /\ ~child.consumed
    /\ fut' = WaitOutputFuture(child)
    /\ child' = [child EXCEPT !.consumed = TRUE]
    /\ UNCHANGED <<proc, hist>>
    /\ UNCHANGED <<mainVars, fsVars, cmdVars, tmpVars>>

\* One scheduling cycle of the future of wait_with_output().
WaitOutputPoll ==
    /\ fut.kind = "output"
    /\ \E c \in CancelAnswers, err \in BOOLEAN :
         LET r == PollChildWaitWithOutput(child, proc, err)
             p == ChildWaitOutputFuturePoll(fut.how_cancelled, fut.id, c, r)
             w == ChildWaitFuturePoll([child EXCEPT !.how_cancelled = fut.how_cancelled],
                                      fut.id, c, PollChildWait(child, proc, err))
         IN /\ child' = [child EXCEPT !.fused = Fuse(child, proc, TRUE)]
            /\ fut' = IF p.ret.tag = "Pending"
                      THEN [fut EXCEPT !.how_cancelled = p.how_cancelled]
                      ELSE [kind |-> "done", id |-> None, how_cancelled |-> p.how_cancelled]
            /\ hist' = [AfterCycle("output", TRUE, c, r, p.ret, p.sig) EXCEPT
                           !.twin = w.ret]
    /\ UNCHANGED proc
    /\ UNCHANGED <<mainVars, fsVars, cmdVars, tmpVars>>

\* The process terminates: with an exit code, or killed by a signal.
ProcExit ==
    /\ proc.exited = None
    /\ \E st \in RealStatuses : proc' = [proc EXCEPT !.exited = Some(st)]
    /\ UNCHANGED <<child, fut, hist>>
    /\ UNCHANGED <<mainVars, fsVars, cmdVars, tmpVars>>

\* The process's output pipes reach end of file and have been read.
PipeEof ==
    /\ ~proc.eof
    /\ proc' = [proc EXCEPT !.eof = TRUE]
    /\ UNCHANGED <<child, fut, hist>>
    /\ UNCHANGED <<mainVars, fsVars, cmdVars, tmpVars>>

---------------------------------------------------------------------------
(* Paths and the filesystem (std::path, tokio::fs as used by src/bids)     *)
(* A path is its list of components and whether it starts at the root.    *)
(* The filesystem is the set of entries the code has made: directories    *)
(* and symlinks, each symlink with its target.                             *)

RelPath(comps) == [abs |-> FALSE, comps |-> comps]
AbsPath(comps) == [abs |-> TRUE, comps |-> comps]

\* Path::is_relative
IsRelative(path) == ~path.abs

\* Path::parent: the path without its final component, if there is one;
\* Some("") for a relative path of one component, None for "" and "/".
PathParent(path) ==
    IF path.comps = <<>>
    THEN None
    ELSE Some([path EXCEPT !.comps = SubSeq(@, 1, Len(@) - 1)])

\* Path::file_name
FileName(path) ==
    IF path.comps = <<>> THEN None ELSE Some(path.comps[Len(path.comps)])

\* Path::join: an absolute path replaces the base.
Join(base, path) ==
    IF path.abs THEN path ELSE [base EXCEPT !.comps = @ \o path.comps]

\* q is p or lies below p.
Below(p, q) ==
    /\ p.abs = q.abs
    /\ Len(p.comps) <= Len(q.comps)
    /\ SubSeq(q.comps, 1, Len(p.comps)) = p.comps

Dir(path) == [path |-> path, kind |-> "dir", target |-> path]
Link(src, dst) == [path |-> dst, kind |-> "link", target |-> src]

PathsOf(made) == {e.path : e \in made}

\* std::fs::remove_file(path); nothing happens if it is not there.
RemoveFile(made, path) == {e \in made : e.path # path}

\* std::fs::remove_dir_all(path); nothing happens if it is not there.
\* Faulty variant: a directory that is not empty is left alone
RemoveDirIfEmpty(made, path) ==
    IF \E e \in made : e.path # path /\ Below(path, e.path)
    THEN made
    ELSE RemoveFile(made, path)

RemoveDirAll(made, path) == {e \in made : ~Below(path, e.path)}

\* tokio::fs::create_dir(path) can succeed: the path is not taken.
CanCreateDir(made, path) == path.comps # <<>> /\ path \notin PathsOf(made)

\* The BIDS tree that is shadowed, the participant, and the three entries
\* of the tree that belong to no participant.
SrcRoot == AbsPath(<<"data", "bids">>)
Pid == "01"
SubStr == "sub-01"
DatasetEntries == <<"dataset_description.json", "sourcedata", "participants.tsv">>
SrcNames == {DatasetEntries[i] : i \in 1..Len(DatasetEntries)} \cup {SubStr}

\* The directory of the tempfile::TempDir.
TmpPath == AbsPath(<<"work", "tmp">>)

\* Results of the constructors: kind is "Ok" or the variant of BidsError.
BidsOk == [kind |-> "Ok", path |-> None, bids_src |-> None, participant |-> None]
ErrHasParent(path) == [BidsOk EXCEPT !.kind = "HasParent", !.path = Some(path)]
ErrMissingParticipant(bids_src, participant) ==
    [BidsOk EXCEPT !.kind = "MissingParticipant", !.bids_src = Some(bids_src),
                   !.participant = Some(participant)]
ErrCanonicalize(bids_src) ==
    [BidsOk EXCEPT !.kind = "Canonicalize", !.bids_src = Some(bids_src)]
ErrFileSystem(path) == [BidsOk EXCEPT !.kind = "FileSystem", !.path = Some(path)]

---------------------------------------------------------------------------
(* NamedTempDir and TempSymlink (src/bids/temp.rs)                         *)
(* tmp.fs is a filesystem of entries, each with who made it: "self" for    *)
(* this component, "other" for anyone else.  tmp.dir and tmp.link are the  *)
(* NamedTempDir and the TempSymlink there are, tmp.last the last call.     *)

TmpDirPath == AbsPath(<<"scratch", "dir">>)
TmpFilePath == Join(TmpDirPath, RelPath(<<"file">>))
TmpLinkDst == AbsPath(<<"scratch", "link">>)
TmpLinkSrc == Join(SrcRoot, RelPath(<<SubStr>>))

Entry(path, kind, by) == [path |-> path, kind |-> kind, by |-> by]

\* The entries strictly below path.
Inside(fs, path) == {e \in fs : e.path # path /\ Below(path, e.path)}

\* The system calls; fail: the call fails for a reason of its own.
\* tokio::fs::create_dir
CreateDir(fs, path, fail) ==
    IF fail \/ path \in PathsOf(fs)
    THEN [ok |-> FALSE, fs |-> fs]
    ELSE [ok |-> TRUE, fs |-> fs \cup {Entry(path, "dir", "self")}]

\* tokio::fs::remove_dir: the directory must be there and empty.
RemoveDir(fs, path, fail) ==
    IF fail \/ path \notin PathsOf(fs) \/ Inside(fs, path) # {}
    THEN [ok |-> FALSE, fs |-> fs]
    ELSE [ok |-> TRUE, fs |-> RemoveFile(fs, path)]

\* tokio::fs::remove_dir_all, std::fs::remove_dir_all
RemoveDirAllCall(fs, path, fail) ==
    IF fail \/ path \notin PathsOf(fs)
    THEN [ok |-> FALSE, fs |-> fs]
    ELSE [ok |-> TRUE, fs |-> RemoveDirAll(fs, path)]

\* tokio::fs::symlink
Symlink(fs, src, dst, fail) ==
    IF fail \/ dst \in PathsOf(fs)
    THEN [ok |-> FALSE, fs |-> fs]
    ELSE [ok |-> TRUE, fs |-> fs \cup {Entry(dst, "link", "self")}]

\* tokio::fs::remove_file, std::fs::remove_file
RemoveFileCall(fs, path, fail) ==
    IF fail \/ path \notin PathsOf(fs)
    THEN [ok |-> FALSE, fs |-> fs]
    ELSE [ok |-> TRUE, fs |-> RemoveFile(fs, path)]

\* Result<_, FileSystemError>
FsOk == [kind |-> "Ok", path |-> None, src_path |-> None]
DirCreateError(path) == [FsOk EXCEPT !.kind = "DirCreateError", !.path = Some(path)]
DirRemoveError(path) == [FsOk EXCEPT !.kind = "DirRemoveError", !.path = Some(path)]
SymlinkCreateError(src, dst) ==
    [kind |-> "SymlinkCreateError", path |-> Some(dst), src_path |-> Some(src)]
SymlinkRemoveError(src, dst) ==
    [kind |-> "SymlinkRemoveError", path |-> Some(dst), src_path |-> Some(src)]

\* NamedTempDir::new
\* Faulty variant: a directory that is there already is taken over
NamedTempDir_new_takes_over(fs, path, fail) ==
    LET c == CreateDir(fs, path, fail) IN
    IF c.ok \/ (~fail /\ path \in PathsOf(fs))
    THEN [res |-> FsOk, fs |-> c.fs, value |-> Some([closed |-> FALSE, path |-> path])]
    ELSE [res |-> DirCreateError(path), fs |-> fs, value |-> None]

NamedTempDir_new(fs, path, fail) ==
    LET c == CreateDir(fs, path, fail) IN
    IF ~c.ok
    THEN [res |-> DirCreateError(path), fs |-> fs, value |-> None]
    ELSE [res |-> FsOk, fs |-> c.fs, value |-> Some([closed |-> FALSE, path |-> path])]

\* NamedTempDir::close on the value v
\* Faulty variant: the value is marked closed before the removal is tried
NamedTempDir_close_marks_first(fs, v, fail) ==
    IF ~v.closed
    THEN LET r == RemoveDir(fs, v.path, fail) IN
         IF ~r.ok
         THEN [res |-> DirRemoveError(v.path), fs |-> fs, value |-> [v EXCEPT !.closed = TRUE]]
         ELSE [res |-> FsOk, fs |-> r.fs, value |-> [v EXCEPT !.closed = TRUE]]
    ELSE [res |-> FsOk, fs |-> fs, value |-> v]

NamedTempDir_close(fs, v, fail) ==
    IF ~v.closed
    THEN LET r == RemoveDir(fs, v.path, fail) IN
         IF ~r.ok
         THEN [res |-> DirRemoveError(v.path), fs |-> fs, value |-> v]
         ELSE [res |-> FsOk, fs |-> r.fs, value |-> [v EXCEPT !.closed = TRUE]]
    ELSE [res |-> FsOk, fs |-> fs, value |-> v]

\* NamedTempDir::close_all on the value v
NamedTempDir_close_all(fs, v, fail) ==
    IF ~v.closed
    THEN LET r == RemoveDirAllCall(fs, v.path, fail) IN
         IF ~r.ok
         THEN [res |-> DirRemoveError(v.path), fs |-> fs, value |-> v]
         ELSE [res |-> FsOk, fs |-> r.fs, value |-> [v EXCEPT !.closed = TRUE]]
    ELSE [res |-> FsOk, fs |-> fs, value |-> v]

\* Drop for NamedTempDir: the filesystem afterwards.
\* Faulty variant: the directory is removed whether closed or not
NamedTempDir_drop_always(fs, v, fail) == RemoveDirAllCall(fs, v.path, fail).fs

NamedTempDir_drop(fs, v, fail) ==
    IF ~v.closed THEN RemoveDirAllCall(fs, v.path, fail).fs ELSE fs

\* TempSymlink::new
TempSymlink_new(fs, src, dst, fail) ==
    LET c == Symlink(fs, src, dst, fail) IN
    IF ~c.ok
    THEN [res |-> SymlinkCreateError(src, dst), fs |-> fs, value |-> None]
    ELSE [res |-> FsOk, fs |-> c.fs,
          value |-> Some([closed |-> FALSE, src_path |-> src, dst_path |-> dst])]

\* TempSymlink::close on the value v
TempSymlink_close(fs, v, fail) ==
    IF ~v.closed
    THEN LET r == RemoveFileCall(fs, v.dst_path, fail) IN
         IF ~r.ok
         THEN [res |-> SymlinkRemoveError(v.src_path, v.dst_path), fs |-> fs, value |-> v]
         ELSE [res |-> FsOk, fs |-> r.fs, value |-> [v EXCEPT !.closed = TRUE]]
    ELSE [res |-> FsOk, fs |-> fs, value |-> v]

\* Drop for TempSymlink: the filesystem afterwards.
TempSymlink_drop(fs, v, fail) ==
    IF ~v.closed THEN RemoveFileCall(fs, v.dst_path, fail).fs ELSE fs

\* The last call: on which type, which function, whether its system call
\* was made to fail, and its result.
NoCall == [on |-> "none", op |-> "none", fail |-> FALSE, res |-> [FsOk EXCEPT !.kind = "none"]]
Call(on, op, fail, res) == [on |-> on, op |-> op, fail |-> fail, res |-> res]

NoTemp == [fs |-> {}, dir |-> None, link |-> None, last |-> NoCall]

UnchangedButTemp ==
    /\ UNCHANGED <<childVars, mainVars, fsVars, cmdVars>>

CallNamedTempDirNew ==
    /\ tmp.dir = None
    /\ \E fail \in BOOLEAN :
         LET r == NamedTempDir_new(tmp.fs, TmpDirPath, fail) IN
         tmp' = [tmp EXCEPT !.fs = r.fs, !.dir = r.value,
                            !.last = Call("NamedTempDir", "new", fail, r.res)]
    /\ UnchangedButTemp

CallNamedTempDirClose ==
    /\ IsSome(tmp.dir)
    /\ \E fail \in BOOLEAN :
         LET r == NamedTempDir_close(tmp.fs, Unwrap(tmp.dir), fail) IN
         tmp' = [tmp EXCEPT !.fs = r.fs, !.dir = Some(r.value),
                            !.last = Call("NamedTempDir", "close", fail, r.res)]
    /\ UnchangedButTemp

CallNamedTempDirCloseAll ==
    /\ IsSome(tmp.dir)
    /\ \E fail \in BOOLEAN :
         LET r == NamedTempDir_close_all(tmp.fs, Unwrap(tmp.dir), fail) IN
         tmp' = [tmp EXCEPT !.fs = r.fs, !.dir = Some(r.value),
                            !.last = Call("NamedTempDir", "close_all", fail, r.res)]
    /\ UnchangedButTemp

\* The NamedTempDir is dropped.
CallNamedTempDirDrop ==
    /\ IsSome(tmp.dir)
    /\ \E fail \in BOOLEAN :
         tmp' = [tmp EXCEPT !.fs = NamedTempDir_drop(tmp.fs, Unwrap(tmp.dir), fail),
                            !.dir = None,
                            !.last = Call("NamedTempDir", "drop", fail, FsOk)]
    /\ UnchangedButTemp

CallTempSymlinkNew ==
    /\ tmp.link = None
    /\ \E fail \in BOOLEAN :
         LET r == TempSymlink_new(tmp.fs, TmpLinkSrc, TmpLinkDst, fail) IN
         tmp' = [tmp EXCEPT !.fs = r.fs, !.link = r.value,
                            !.last = Call("TempSymlink", "new", fail, r.res)]
    /\ UnchangedButTemp

CallTempSymlinkClose ==
    /\ IsSome(tmp.link)
    /\ \E fail \in BOOLEAN :
         LET r == TempSymlink_close(tmp.fs, Unwrap(tmp.link), fail) IN
         tmp' = [tmp EXCEPT !.fs = r.fs, !.link = Some(r.value),
                            !.last = Call("TempSymlink", "close", fail, r.res)]
    /\ UnchangedButTemp

\* The TempSymlink is dropped.
CallTempSymlinkDrop ==
    /\ IsSome(tmp.link)
    /\ \E fail \in BOOLEAN :
         tmp' = [tmp EXCEPT !.fs = TempSymlink_drop(tmp.fs, Unwrap(tmp.link), fail),
                            !.link = None,
                            !.last = Call("TempSymlink", "drop", fail, FsOk)]
    /\ UnchangedButTemp

\* Someone else makes an entry at a path that is free: the directory, a
\* file in the directory, the link.
OtherCreates ==
    /\ \E e \in {Entry(TmpDirPath, "dir", "other"), Entry(TmpFilePath, "file", "other"),
                  Entry(TmpLinkDst, "link", "other")} :
         /\ e.path \notin PathsOf(tmp.fs)
         /\ e.path = TmpFilePath => TmpDirPath \in PathsOf(tmp.fs)
         /\ tmp' = [tmp EXCEPT !.fs = @ \cup {e}, !.last = NoCall]
    /\ UnchangedButTemp

---------------------------------------------------------------------------
(* The shadow BIDS tree: ShadowBids, BidsParticipant (src/bids)            *)

\* exists(src.join(name)): the entries of the shadowed tree are srcHas.
Exists(srcHas, name) == name \in srcHas

\* The test ShadowBids::new makes of dst when it is given a parent.
HasParent(dst) == ~IsRelative(dst) \/ IsSome(PathParent(dst))

\* The entries of DatasetEntries up to the k-th that exist in the source.
PresentUpTo(srcHas, k) ==
    {DatasetEntries[i] : i \in {i \in 1..k : Exists(srcHas, DatasetEntries[i])}}

\* The symlinks ShadowBids::new makes in dst for the entries names.
\* Faulty variant: every entry gets a link, present or not
ShadowLinksAll(src, dst, names) ==
    {Link(Join(src, RelPath(<<DatasetEntries[i]>>)),
          Join(dst, RelPath(<<DatasetEntries[i]>>))) : i \in 1..Len(DatasetEntries)}

ShadowLinks(src, dst, names) ==
    {Link(Join(src, RelPath(<<n>>)), Join(dst, RelPath(<<n>>))) : n \in names}

\* A ShadowBids value: links are the TempSymlinks it owns.
ShadowBidsValue(parent, src, dst, names) ==
    [parent |-> parent, src |-> src, path |-> dst,
     links |-> [i \in 1..Len(DatasetEntries) |->
                  IF DatasetEntries[i] \in names
                  THEN Some(Join(dst, RelPath(<<DatasetEntries[i]>>)))
                  ELSE None]]

\* ShadowBids::new from the creation of the directory at dst on.  failAt
\* is the filesystem operation that fails: 0 none, 1 create_dir, k + 1 the
\* symlink of the k-th entry.  On an error the links made so far and the
\* directory are dropped again, in the reverse order of their making.
ShadowBidsBuild(made, srcHas, src, dst, parent, failAt) ==
    LET failedLink == failAt > 1 /\ Exists(srcHas, DatasetEntries[failAt - 1])
        before == IF failedLink THEN PresentUpTo(srcHas, failAt - 2) ELSE {}
        partial == made \cup {Dir(dst)} \cup ShadowLinks(src, dst, before)
        names == PresentUpTo(srcHas, Len(DatasetEntries))
    IN IF ~CanCreateDir(made, dst) \/ failAt = 1
       THEN [res |-> ErrFileSystem(dst), made |-> made, value |-> None]
       ELSE IF failedLink
       THEN [res |-> ErrFileSystem(Join(dst, RelPath(<<DatasetEntries[failAt - 1]>>))),
             made |-> RemoveDirAll(
                        {e \in partial : e \notin ShadowLinks(src, dst, before)}, dst),
             value |-> None]
       ELSE [res |-> BidsOk,
             made |-> made \cup {Dir(dst)} \cup ShadowLinks(src, dst, names),
             value |-> Some(ShadowBidsValue(parent, src, dst, names))]

\* ShadowBids::new(src, dst, parent)
ShadowBidsNew(made, srcHas, src, dst, parent, failAt) ==
    IF IsSome(parent) /\ HasParent(dst)
    THEN [res |-> ErrHasParent(dst), made |-> made, value |-> None]
    ELSE ShadowBidsBuild(made, srcHas, src,
                         IF IsSome(parent) THEN Join(Unwrap(parent), dst) ELSE dst,
                         parent, failAt)

\* ShadowBids::new_with_parent(src, parent); canon is what
\* src.canonicalize() returns, None for an error.
ShadowBidsNewWithParent(made, srcHas, src, canon, parent, failAt) ==
    IF canon = None \/ FileName(Unwrap(canon)) = None
    THEN [res |-> ErrCanonicalize(src), made |-> made, value |-> None]
    ELSE ShadowBidsNew(made, srcHas, src, RelPath(<<Unwrap(FileName(Unwrap(canon)))>>),
                       Some(parent), failAt)

\* BidsParticipant::new(participant, parent) for the ShadowBids sb; fail:
\* the symlink cannot be made.
\* Faulty variant: the link is made before the source is looked at
BidsParticipantNewLinkFirst(made, srcHas, participant, sb, fail) ==
    LET sub == RelPath(<<SubStr>>)
        dst == Join(sb.path, sub)
    IN [res |-> IF Exists(srcHas, SubStr) THEN BidsOk
                ELSE ErrMissingParticipant(sb.src, participant),
        made |-> made \cup {Link(Join(sb.src, sub), dst)},
        value |-> IF Exists(srcHas, SubStr)
                  THEN Some([parent |-> sb.path, path |-> dst]) ELSE None]

BidsParticipantNew(made, srcHas, participant, sb, fail) ==
    LET sub == RelPath(<<SubStr>>)
        src == Join(sb.src, sub)
        dst == Join(sb.path, sub)
    IN IF ~Exists(srcHas, SubStr)
       THEN [res |-> ErrMissingParticipant(sb.src, participant),
             made |-> made, value |-> None]
       ELSE IF fail \/ dst \in PathsOf(made)
       THEN [res |-> ErrFileSystem(dst), made |-> made, value |-> None]
       ELSE [res |-> BidsOk, made |-> made \cup {Link(src, dst)},
             value |-> Some([parent |-> sb.path, path |-> dst])]

\* The values that own filesystem entries.  temp: the strong count of the
\* Arc<TempDir>, 0 if there is none; shadow: the ShadowBids and
\* shadowRefs the strong count of its Arc; part: the BidsParticipant;
\* holdsTemp, holdsShadow: the caller still holds its own Arc; live: the
\* paths whose NamedTempDir or TempSymlink has not been dropped yet.
NoHeap == [temp |-> 0, holdsTemp |-> FALSE, shadow |-> None, shadowRefs |-> 0,
           holdsShadow |-> FALSE, part |-> None, live |-> {}]

\* The paths a ShadowBids value owns.
OwnedBy(sb) ==
    {sb.path} \cup {Unwrap(sb.links[i]) : i \in {i \in 1..Len(sb.links) : IsSome(sb.links[i])}}

\* The destructors, as the steps they run in order.  A struct drops its
\* fields in the order of their declaration.
ArcTempDir == [op |-> "Arc<TempDir>", path |-> TmpPath]
ArcShadowBids(sb) == [op |-> "Arc<ShadowBids>", path |-> sb.path]
NamedTempDirDrop(path) == [op |-> "NamedTempDir", path |-> path]
TempSymlinkDrop(path) == [op |-> "TempSymlink", path |-> path]

RECURSIVE LinkDrops(_, _)
LinkDrops(links, i) ==
    IF i > Len(links) THEN <<>>
    ELSE (IF IsSome(links[i]) THEN <<TempSymlinkDrop(Unwrap(links[i]))>> ELSE <<>>)
         \o LinkDrops(links, i + 1)

\* ShadowBids: parent, src, path, then the three links.
ShadowBidsDrop(sb) ==
    (IF IsSome(sb.parent) THEN <<ArcTempDir>> ELSE <<>>)
    \o <<NamedTempDirDrop(sb.path)>>
    \o LinkDrops(sb.links, 1)

\* BidsParticipant: parent, then path.
BidsParticipantDrop(sb, bp) == <<ArcShadowBids(sb), TempSymlinkDrop(bp.path)>>

\* The first of the destructor steps t runs on the values h and the
\* filesystem entries made.
DropStep(h, made, t) ==
    LET step == Head(t) IN
    CASE step.op = "Arc<TempDir>" ->
           [heap |-> [h EXCEPT !.temp = @ - 1],
            made |-> IF h.temp = 1 THEN RemoveDirAll(made, step.path) ELSE made,
            todo |-> Tail(t)]
      [] step.op = "Arc<ShadowBids>" ->
           IF h.shadowRefs = 1
           THEN [heap |-> [h EXCEPT !.shadowRefs = 0, !.shadow = None],
                 made |-> made,
                 todo |-> ShadowBidsDrop(Unwrap(h.shadow)) \o Tail(t)]
           ELSE [heap |-> [h EXCEPT !.shadowRefs = @ - 1],
                 made |-> made, todo |-> Tail(t)]
      [] step.op = "NamedTempDir" ->
           [heap |-> [h EXCEPT !.live = @ \ {step.path}],
            made |-> RemoveDirAll(made, step.path),
            todo |-> Tail(t)]
      [] OTHER ->
           [heap |-> [h EXCEPT !.live = @ \ {step.path}],
            made |-> RemoveFile(made, step.path),
            todo |-> Tail(t)]

Reverse(seq) == [i \in 1..Len(seq) |-> seq[Len(seq) + 1 - i]]

\* The first of the destructor steps t removes something from the
\* filesystem: a NamedTempDir, a TempSymlink, the last Arc<TempDir>.
Removes(h, t) ==
    \/ Head(t).op \in {"NamedTempDir", "TempSymlink"}
    \/ Head(t).op = "Arc<TempDir>" /\ h.temp = 1

\* DropStep when the removal may fail: the destructors discard the result
\* of remove_dir_all and remove_file (`let _ = ..`) and return.
\* Faulty variant: a removal that fails ends the destructors
DropStepStopsOnFailure(h, made, t, fail) ==
    LET x == DropStep(h, made, t) IN
    IF fail THEN [heap |-> h, made |-> made, todo |-> <<>>] ELSE x

DropStepMayFail(h, made, t, fail) ==
    LET x == DropStep(h, made, t) IN
    [x EXCEPT !.made = IF fail THEN made ELSE x.made]

\* All the destructor steps t, run to the end.
RECURSIVE DropAll(_, _, _)
DropAll(h, made, t) ==
    IF t = <<>>
    THEN [heap |-> h, made |-> made, todo |-> t]
    ELSE LET x == DropStep(h, made, t) IN DropAll(x.heap, x.made, x.todo)

\* The last constructor call: its arguments, its result and the
\* filesystem entries before it.  Every other step clears it.
NoFsEvent == [op |-> "none", dst |-> None, parent |-> None, canon |-> None,
              failAt |-> 0, fails |-> {}, res |-> [BidsOk EXCEPT !.kind = "none"],
              before |-> {}]

\* Destinations: "", a bare name, a name below another, an absolute path.
DstPaths == {RelPath(<<>>), RelPath(<<"shadow">>), RelPath(<<"a", "shadow">>),
             AbsPath(<<"shadow">>)}

\* What src.canonicalize() can return: an error, the root, the tree.
CanonResults == {None, Some(AbsPath(<<>>)), Some(SrcRoot)}

FailPoints == 0..(Len(DatasetEntries) + 1)

\* A ShadowBids was made: the caller holds it in an Arc.
Hold(h, value, parent) ==
    [h EXCEPT !.shadow = value, !.shadowRefs = 1, !.holdsShadow = TRUE,
                 !.temp = IF IsSome(parent) THEN @ + 1 ELSE @,
                 !.live = @ \cup OwnedBy(Unwrap(value))]

\* TempDir::new_in
TempDirNewIn ==
    /\ todo = <<>>
    /\ heap.temp = 0
    /\ CanCreateDir(disk.made, TmpPath)
    /\ disk' = [disk EXCEPT !.made = @ \cup {Dir(TmpPath)}]
    /\ heap' = [heap EXCEPT !.temp = 1, !.holdsTemp = TRUE]
    /\ fsev' = NoFsEvent
    /\ UNCHANGED todo
    /\ UNCHANGED <<childVars, mainVars, cmdVars, tmpVars>>

\* ShadowBids::new(src, dst, parent), with a clone of the caller's
\* Arc<TempDir> for a parent or with none.
ShadowBidsNewCall ==
    /\ todo = <<>>
    /\ heap.shadow = None
    /\ \E dst \in DstPaths, failAt \in FailPoints,
          parent \in IF heap.holdsTemp THEN {None, Some(TmpPath)} ELSE {None} :
         LET r == ShadowBidsNew(disk.made, disk.src, SrcRoot, dst, parent, failAt) IN
         /\ disk' = [disk EXCEPT !.made = r.made]
         /\ heap' = IF r.res.kind = "Ok" THEN Hold(heap, r.value, parent) ELSE heap
         /\ fsev' = [NoFsEvent EXCEPT !.op = "new", !.dst = Some(dst),
                                      !.parent = parent, !.failAt = failAt,
                                      !.res = r.res, !.before = disk.made]
    /\ UNCHANGED todo
    /\ UNCHANGED <<childVars, mainVars, cmdVars, tmpVars>>

\* ShadowBids::new_with_parent(src, parent)
ShadowBidsNewWithParentCall ==
    /\ todo = <<>>
    /\ heap.shadow = None
    /\ heap.holdsTemp
    /\ \E canon \in CanonResults, failAt \in FailPoints :
         LET r == ShadowBidsNewWithParent(disk.made, disk.src, SrcRoot, canon,
                                          TmpPath, failAt) IN
         /\ disk' = [disk EXCEPT !.made = r.made]
         /\ heap' = IF r.res.kind = "Ok" THEN Hold(heap, r.value, Some(TmpPath)) ELSE heap
         /\ fsev' = [NoFsEvent EXCEPT !.op = "new_with_parent", !.canon = canon,
                                      !.parent = Some(TmpPath), !.failAt = failAt,
                                      !.res = r.res, !.before = disk.made]
    /\ UNCHANGED todo
    /\ UNCHANGED <<childVars, mainVars, cmdVars, tmpVars>>

\* BidsParticipant::new(participant, parent) with a clone of the caller's
\* Arc<ShadowBids>.
BidsParticipantNewCall ==
    /\ todo = <<>>
    /\ heap.holdsShadow
    /\ heap.part = None
    /\ \E fail \in BOOLEAN :
         LET r == BidsParticipantNew(disk.made, disk.src, Pid, Unwrap(heap.shadow), fail) IN
         /\ disk' = [disk EXCEPT !.made = r.made]
         /\ heap' = IF r.res.kind = "Ok"
                    THEN [heap EXCEPT !.part = r.value, !.shadowRefs = @ + 1,
                                      !.live = @ \cup {Unwrap(r.value).path}]
                    ELSE heap
         /\ fsev' = [NoFsEvent EXCEPT !.op = "BidsParticipant::new",
                                      !.failAt = IF fail THEN 1 ELSE 0,
                                      !.res = r.res, !.before = disk.made]
    /\ UNCHANGED todo
    /\ UNCHANGED <<childVars, mainVars, cmdVars, tmpVars>>

\* The caller drops its Arc<TempDir>.
DropTempDir ==
    /\ todo = <<>>
    /\ heap.holdsTemp
    /\ heap' = [heap EXCEPT !.holdsTemp = FALSE]
    /\ todo' = <<ArcTempDir>>
    /\ fsev' = NoFsEvent
    /\ UNCHANGED disk
    /\ UNCHANGED <<childVars, mainVars, cmdVars, tmpVars>>

\* The caller drops its Arc<ShadowBids>.
DropShadowBids ==
    /\ todo = <<>>
    /\ heap.holdsShadow
    /\ heap' = [heap EXCEPT !.holdsShadow = FALSE]
    /\ todo' = <<ArcShadowBids(Unwrap(heap.shadow))>>
    /\ fsev' = NoFsEvent
    /\ UNCHANGED disk
    /\ UNCHANGED <<childVars, mainVars, cmdVars, tmpVars>>

\* The BidsParticipant is dropped.
DropBidsParticipant ==
    /\ todo = <<>>
    /\ IsSome(heap.part)
    /\ heap' = [heap EXCEPT !.part = None]
    /\ todo' = BidsParticipantDrop(Unwrap(heap.shadow), Unwrap(heap.part))
    /\ fsev' = NoFsEvent
    /\ UNCHANGED disk
    /\ UNCHANGED <<childVars, mainVars, cmdVars, tmpVars>>

\* The next step of the destructors that are running.
Drop ==
    /\ todo # <<>>
    /\ LET x == DropStep(heap, disk.made, todo) IN
         /\ heap' = x.heap
         /\ disk' = [disk EXCEPT !.made = x.made]
         /\ todo' = x.todo
    /\ fsev' = NoFsEvent
    /\ UNCHANGED <<childVars, mainVars, cmdVars, tmpVars>>

---------------------------------------------------------------------------
(* The participant job: Mriqc1Process (src/mriqc.rs)                       *)

Participants == 1..NPart

\* An OsString is its list of parts: one part for a plain string, the
\* components for a path, after "/" if it starts at the root.
OsStr(s) == <<s>>

\* Path::as_os_str
AsOsStr(path) == (IF path.abs THEN <<"/">> ELSE <<>>) \o path.comps

\* Mriqc1Options::mriqc, ::out_dir and ::extra_args as main passes them.
Cmd == "mriqc"
OutDir == AbsPath(<<"out">>)
ExtraArgs == <<OsStr("-m"), OsStr("T1w")>>

\* options.mriqc.unwrap_or(Path::new("mriqc"))
MriqcOrDefault(mriqc) == IF IsSome(mriqc) THEN Unwrap(mriqc) ELSE RelPath(<<"mriqc">>)

\* The directory of the job's view: the base name of the BIDS tree inside
\* the job's temporary directory.
JobView == Join(TmpPath, RelPath(<<Unwrap(FileName(SrcRoot))>>))

\* The argument list new_with_cancel composes: the mandatory arguments,
\* then the extra arguments, each converted to an OsString.
\* Faulty variant: --work-dir is given the view instead of the temporary directory
ComposeArgsWorkDirIsView(shadow_bids_path, out_dir, temp_dir, participant, extra_args) ==
    <<AsOsStr(shadow_bids_path), AsOsStr(out_dir), OsStr("participant"),
      OsStr("--work-dir"), AsOsStr(shadow_bids_path),
      OsStr("--participant-label"), OsStr(participant)>>
    \o [i \in 1..Len(extra_args) |-> extra_args[i]]

ComposeArgs(shadow_bids_path, out_dir, temp_dir, participant, extra_args) ==
    <<AsOsStr(shadow_bids_path), AsOsStr(out_dir), OsStr("participant"),
      OsStr("--work-dir"), AsOsStr(temp_dir),
      OsStr("--participant-label"), OsStr(participant)>>
    \o [i \in 1..Len(extra_args) |-> extra_args[i]]

\* The argument list new_with_cancel composes for participant p.
Args(p) == ComposeArgs(JobView, OutDir, TmpPath, p, ExtraArgs)

\* The tokio::process::Command new_with_cancel builds.
BuildCommand(mriqc, args, temp_dir) ==
    [program |-> AsOsStr(mriqc), args |-> args,
     stdin |-> "null", stdout |-> "piped", stderr |-> "piped",
     current_dir |-> temp_dir, kill_on_drop |-> TRUE]

\* Result<(), MriqcError>: kind is "Ok" or the variant of MriqcError.
OkUnit == [kind |-> "Ok", cmd |-> "", args |-> <<>>,
           status |-> None, stdout |-> None, stderr |-> None]
NoResult == [OkUnit EXCEPT !.kind = "none"]
ErrTempDir == [OkUnit EXCEPT !.kind = "TempDir"]
ErrBids == [OkUnit EXCEPT !.kind = "BidsError"]
ErrProcess(cmd, args) == [OkUnit EXCEPT !.kind = "Process", !.cmd = cmd, !.args = args]
ErrProcessWithOutput(cmd, args, output) ==
    [kind |-> "ProcessWithOutput", cmd |-> cmd, args |-> args,
     status |-> output.status, stdout |-> Some(output.stdout),
     stderr |-> Some(output.stderr)]

\* The steps of new_with_cancel, in order; a failure at step o gives
\* that step's error, "ok" a spawned and supervised process.
ConstructOutcomes == {"TempDir", "ShadowBids", "BidsParticipant", "Spawn", "ok"}

\* What exists once new_with_cancel has got as far as outcome o.
Made(o) ==
    CASE o = "TempDir" -> {}
      [] o = "ShadowBids" -> {"temp_dir"}
      [] o = "BidsParticipant" -> {"temp_dir", "shadow_bids"}
      [] o = "Spawn" -> {"temp_dir", "shadow_bids", "bids_participant"}
      [] OTHER -> {"temp_dir", "shadow_bids", "bids_participant", "process"}

\* The values and filesystem entries of a job whose new_with_cancel got
\* as far as outcome o, every step before o having returned Ok, and the
\* destructors that then run: on an error the locals made so far, in the
\* reverse order of their declaration; on Ok the locals temp_dir and
\* shadow_bids, the BidsParticipant having moved into the Mriqc1Process.
JobBuilt(o) ==
    LET made0 == {Dir(TmpPath)}
        h0 == [NoHeap EXCEPT !.temp = 1, !.holdsTemp = TRUE]
        sbr == ShadowBidsBuild(made0, SrcNames, SrcRoot, JobView, Some(TmpPath), 0)
        sb == Unwrap(sbr.value)
        h1 == Hold(h0, sbr.value, Some(TmpPath))
        bpr == BidsParticipantNew(sbr.made, SrcNames, Pid, sb, FALSE)
        h2 == [h1 EXCEPT !.part = bpr.value, !.shadowRefs = @ + 1,
                         !.live = @ \cup {Unwrap(bpr.value).path}]
        locals == <<ArcShadowBids(sb), ArcTempDir>>
    IN CASE o = "TempDir" -> [heap |-> NoHeap, made |-> {}, todo |-> <<>>]
         [] o = "ShadowBids" -> [heap |-> h0, made |-> made0, todo |-> <<ArcTempDir>>]
         [] o = "BidsParticipant" -> [heap |-> h1, made |-> sbr.made, todo |-> locals]
         [] o = "Spawn" ->
              [heap |-> h2, made |-> bpr.made,
               todo |-> BidsParticipantDrop(sb, Unwrap(bpr.value)) \o locals]
         [] OTHER -> DropAll(h2, bpr.made, locals)

\* What is left on the filesystem of a job that got as far as o, once
\* its future has returned or has been dropped: a Mriqc1Process drops
\* its process and then its BidsParticipant.
JobLeft ==
    [o \in ConstructOutcomes |->
        LET b == JobBuilt(o) IN
        IF o = "ok"
        THEN DropAll(b.heap, b.made,
                     BidsParticipantDrop(Unwrap(b.heap.shadow), Unwrap(b.heap.part))).made
        ELSE DropAll(b.heap, b.made, b.todo).made]

\* The filesystem entries removed as a Mriqc1Process is dropped, its
\* future having returned or having been dropped with the stream.
JobReleased == JobBuilt("ok").made \ JobLeft["ok"]

\* Mriqc1Process::new_with_cancel
NewWithCancel(o, p) ==
    CASE o = "TempDir" -> ErrTempDir
      [] o = "ShadowBids" -> ErrBids
      [] o = "BidsParticipant" -> ErrBids
      [] o = "Spawn" -> ErrProcess(Cmd, Args(p))
      [] OTHER -> OkUnit

\* The steps of new_with_cancel run on the code of src/bids for a tree
\* with the entries srcHas: which outcome it reaches, and the BidsError
\* if there is one.  fails: the steps among "TempDir", "BidsParticipant"
\* and "Spawn" whose system call fails; canon, failAt: as for
\* ShadowBidsNewWithParent.
NewWithCancelSteps(srcHas, fails, canon, failAt) ==
    IF "TempDir" \in fails THEN [o |-> "TempDir", bids |-> BidsOk]
    ELSE LET sbr == ShadowBidsNewWithParent({Dir(TmpPath)}, srcHas, SrcRoot, canon,
                                            TmpPath, failAt)
         IN IF sbr.res.kind # "Ok" THEN [o |-> "ShadowBids", bids |-> sbr.res]
            ELSE LET bpr == BidsParticipantNew(sbr.made, srcHas, Pid, Unwrap(sbr.value),
                                               "BidsParticipant" \in fails)
                 IN IF bpr.res.kind # "Ok" THEN [o |-> "BidsParticipant", bids |-> bpr.res]
                    ELSE IF "Spawn" \in fails THEN [o |-> "Spawn", bids |-> BidsOk]
                    ELSE [o |-> "ok", bids |-> BidsOk]

\* new_with_cancel at the point where its step o returns an error, every
\* step before it having returned Ok, on a tree with the entries srcHas:
\* the values alive, the filesystem entries made, and the destructors the
\* `?` then runs.  For o = "ShadowBids" failAt is the operation of
\* ShadowBids::new that fails (1 create_dir, k + 1 the symlink of the k-th
\* entry): its locals are dropped in the reverse order of their
\* declaration, then its parameter parent, then the caller's temp_dir.
\* For o = "BidsParticipant" the clone of the Arc<ShadowBids> passed to
\* BidsParticipant::new is dropped there, then the caller's locals.
FailedBuild(srcHas, o, failAt) ==
    LET made0 == {Dir(TmpPath)}
        h0 == [NoHeap EXCEPT !.temp = 1, !.holdsTemp = TRUE]
        before == PresentUpTo(srcHas, IF failAt > 1 THEN failAt - 2 ELSE 0)
        part == ShadowBidsValue(Some(TmpPath), SrcRoot, JobView, before)
        sbr == ShadowBidsBuild(made0, srcHas, SrcRoot, JobView, Some(TmpPath), 0)
        sb == Unwrap(sbr.value)
        h1 == Hold(h0, sbr.value, Some(TmpPath))
        bpr == BidsParticipantNew(sbr.made, srcHas, Pid, sb, o = "BidsParticipant")
        h2 == [h1 EXCEPT !.part = bpr.value, !.shadowRefs = @ + 1,
                         !.live = @ \cup {Unwrap(bpr.value).path}]
        locals == <<ArcShadowBids(sb), ArcTempDir>>
    IN CASE o = "TempDir" ->
              [heap |-> NoHeap, made |-> {}, todo |-> <<>>, bids |-> BidsOk]
         [] o = "ShadowBids" /\ failAt = 1 ->
              [heap |-> [h0 EXCEPT !.temp = 2], made |-> made0,
               todo |-> <<ArcTempDir, ArcTempDir>>,
               bids |-> ErrFileSystem(JobView)]
         [] o = "ShadowBids" /\ failAt > 1 ->
              [heap |-> [h0 EXCEPT !.temp = 2, !.live = OwnedBy(part)],
               made |-> made0 \cup {Dir(JobView)} \cup ShadowLinks(SrcRoot, JobView, before),
               todo |-> Reverse(LinkDrops(part.links, 1))
                        \o <<NamedTempDirDrop(JobView), ArcTempDir, ArcTempDir>>,
               bids |-> ErrFileSystem(Join(JobView, RelPath(<<DatasetEntries[failAt - 1]>>)))]
         [] o = "BidsParticipant" ->
              [heap |-> [h1 EXCEPT !.shadowRefs = 2], made |-> sbr.made,
               todo |-> <<ArcShadowBids(sb)>> \o locals,
               bids |-> bpr.res]
         [] OTHER ->
              [heap |-> h2, made |-> bpr.made,
               todo |-> BidsParticipantDrop(sb, Unwrap(bpr.value)) \o locals,
               bids |-> BidsOk]

\* Mriqc1Process::wait on the value ret of wait_with_output().await
\* Faulty variant: a cancelled process is reported as a failure
Mriqc1WaitCancelFails(ret, cmd, args) ==
    IF ret.tag = "Ok" /\ ret.how_cancelled = None /\ Success(Unwrap(ret.val).status)
    THEN OkUnit
    ELSE ErrProcess(cmd, args)

Mriqc1Wait(ret, cmd, args) ==
    IF ret.tag = "Ok"
    THEN IF IsSome(ret.how_cancelled)
         THEN OkUnit
         ELSE LET output == Unwrap(ret.val) IN
              IF Success(output.status)
              THEN OkUnit
              ELSE ErrProcessWithOutput(cmd, args, output)
    ELSE ErrProcess(cmd, args)

\* SpecArgs: one job's command line.  cmdl holds the options the job was
\* given, the Command it built, the fields cmd and args of the
\* Mriqc1Process and the result returned to the caller.
NoCommandLine == [stage |-> "none", options |-> None, command |-> None,
                  process |-> None, res |-> NoResult]

ArgWords == {"-m", "T1w", "--no-sub"}
ExtraArgLists == UNION {[1..n -> {OsStr(w) : w \in ArgWords}] : n \in 0..MaxExtra}
ParticipantIds == {"01", "02"}
MriqcOptions == {None, Some(AbsPath(<<"opt", "mriqc">>))}

\* What wait_with_output().await can give Mriqc1Process::wait.
WaitResults ==
    {[tag |-> "Err", how_cancelled |-> None, val |-> None]}
    \cup {[tag |-> "Ok", how_cancelled |-> Some(s), val |-> None] : s \in CancelSignal}
    \cup {[tag |-> "Ok", how_cancelled |-> None,
           val |-> Some([status |-> st, stdout |-> "out", stderr |-> "err"])] :
              st \in RealStatuses}

\* new_with_cancel from the composition of the arguments on: the view and
\* the temporary directory are there; spawn() succeeds or fails.
SpawnTool ==
    /\ cmdl.stage = "options"
    /\ \E fails \in BOOLEAN :
         LET o == Unwrap(cmdl.options)
             mriqc == MriqcOrDefault(o.mriqc)
             args == ComposeArgs(JobView, OutDir, TmpPath, o.participant, o.extra_args)
         IN cmdl' = [cmdl EXCEPT
                       !.command = Some(BuildCommand(mriqc, args, TmpPath)),
                       !.stage = IF fails THEN "failed" ELSE "spawned",
                       !.process = IF fails THEN None
                                   ELSE Some([cmd |-> AsOsStr(mriqc), args |-> args]),
                       !.res = IF fails THEN ErrProcess(AsOsStr(mriqc), args) ELSE NoResult]
    /\ UNCHANGED <<childVars, mainVars, fsVars, tmpVars>>

\* Mriqc1Process::wait returns.
ProcessWait ==
    /\ cmdl.stage = "spawned"
    /\ \E ret \in WaitResults :
         LET p == Unwrap(cmdl.process) IN
         cmdl' = [cmdl EXCEPT !.stage = "done", !.res = Mriqc1Wait(ret, p.cmd, p.args)]
    /\ UNCHANGED <<childVars, mainVars, fsVars, tmpVars>>

---------------------------------------------------------------------------
(* main (src/main.rs)                                                      *)
(* Time is counted in ticks of the length of the sleep each job's future   *)
(* makes before it returns.  Of the clock only each waiting job's          *)
(* elapsed = Instant::now() - start_time is kept, and only up to one tick  *)
(* more than the timeout: a longer time compares with the timeout alike.   *)

SleepTicks == 1

\* elapsed, d ticks later.
Later(elapsed, d) ==
    LET cap == IF IsSome(cfg.timeout) THEN Unwrap(cfg.timeout) + 1 ELSE 0
    IN IF elapsed + d > cap THEN cap ELSE elapsed + d

\* The closure returned by cancel_on_interrupt_or_timeout, called when
\* elapsed ticks have passed since it was made.
\* Faulty variant: the timeout is ignored
CancelOnInterruptOnly(flag, timeout, elapsed) ==
    IF flag THEN Some("Interrupt") ELSE None

\* Faulty variant: the flag is ignored
CancelOnTimeoutOnly(flag, timeout, elapsed) ==
    IF IsSome(timeout) /\ elapsed > Unwrap(timeout) THEN Some("Interrupt") ELSE None

CancelOnInterruptOrTimeout(flag, timeout, elapsed) ==
    LET timed_out == IF IsSome(timeout)
                     THEN elapsed > Unwrap(timeout)
                     ELSE FALSE
    IN IF timed_out \/ flag THEN Some("Interrupt") ELSE None

\* The closure writes "Participant .. timed out after .." to stderr each
\* time it is called with the timeout exceeded, unless --quiet is given.
TimedOutNote(timeout, elapsed, quiet) ==
    IsSome(timeout) /\ elapsed > Unwrap(timeout) /\ ~quiet

\* The skip decision of the job's future.
\* Faulty variant: the existing output is skipped without --resume
SkipAlways(resume, exists) == exists

SkipOnResume(resume, exists) == resume /\ exists

NoRet == [tag |-> "none", how_cancelled |-> None, val |-> None]

\* A participant of the stream.  pc: "pending" (not yet pulled from the
\* stream), "queued" (its future is in the buffer, not yet polled),
\* "waiting" (awaiting process.wait()), "settled" (its future returned),
\* "dropped" (its future was dropped with the stream).
\* elapsed: the time since start_time of its cancel closure.
\* exited: the tool's process has terminated; expired: it did so after
\* the timeout had elapsed.
\* pb: the participant's progress bar: "none" before it is made, "shown"
\* once it is added to the multibar, "finished" after finish_and_clear().
NewJob == [pc |-> "pending", elapsed |-> 0, exited |-> FALSE, expired |-> FALSE,
           pb |-> "none"]

\* The jobs js, d ticks later.
Elapse(js, d) ==
    [i \in Participants |->
        IF js[i].pc = "waiting"
        THEN [js[i] EXCEPT !.elapsed = Later(@, d)]
        ELSE js[i]]

\* What the last step of a job's future did; every other step clears it.
\* sawOut: out_dir/sub-<j> existed at the resume check; made: what
\* new_with_cancel created; out: what wait_with_output returned; sig: the
\* signal sent; answer: what the cancel closure returned; exited,
\* expired: the process had terminated, and had outlived the timeout when
\* it did.  If the future returned (settled): res, its result; class, how
\* the job ended ("Skipped", "Succeeded", "CancelledOk" or "Failed");
\* warned, the filter turned the error into a warning; left, the
\* filesystem entries of the job, and of the jobs dropped with the stream,
\* that are still there.  note: the cancel closure wrote its timeout
\* message in this step.
NoEvent == [op |-> "none", j |-> 0, settled |-> FALSE, sawOut |-> FALSE,
            skipped |-> FALSE, made |-> {}, answer |-> None, out |-> NoRet,
            sig |-> None, res |-> NoResult, class |-> "none", warned |-> FALSE,
            exited |-> FALSE, expired |-> FALSE, left |-> {}, note |-> FALSE]

\* The futures buffer_unordered holds.
InProgress == {j \in Participants : jobs[j].pc \in {"queued", "waiting"}}

\* buffer_unordered pulls from the stream while the buffer has room.
\* Faulty variant: off by one
HasSlotOffByOne(len, max) == len <= max

HasSlot(len, max) == len < max

CanFill ==
    /\ run.phase = "active"
    /\ ~run.cut
    /\ HasSlot(Cardinality(InProgress), cfg.n_par)

\* The filter passes an error on to try_for_each only with --werror.
\* Faulty variant: no error is passed on
FatalNever(res) == FALSE

\* Faulty variant: every error is passed on
FatalAlways(res) == res.kind # "Ok"

Fatal(res) == res.kind # "Ok" /\ cfg.werror

\* The future of participant j returns res: the thread has slept, the
\* result goes through filter and try_for_each; a fatal one ends the run
\* and drops the stream with the futures still in the buffer.
Finish(j, class, res, e) ==
    LET settled == Elapse([jobs EXCEPT ![j] = [NewJob EXCEPT !.pc = "settled",
                                                             !.pb = "finished"]],
                          SleepTicks)
    IN
    /\ ev' = [e EXCEPT !.j = j, !.settled = TRUE, !.res = res, !.class = class,
                       !.warned = (res.kind # "Ok" /\ ~Fatal(res)),
                       !.left = IF Fatal(res) /\ \E i \in Participants : settled[i].pc = "waiting"
                                THEN @ \cup JobLeft["ok"]
                                ELSE @]
    /\ IF Fatal(res)
       THEN /\ jobs' = [i \in Participants |->
                          IF settled[i].pc \in {"queued", "waiting"}
                          THEN [NewJob EXCEPT !.pc = "dropped", !.pb = "shown"]
                          ELSE settled[i]]
            /\ run' = [run EXCEPT !.phase = "done", !.outcome = "Failed"]
       ELSE /\ jobs' = settled
            /\ run' = run

\* The predicate of take_while: the flag as it is loaded when the next
\* participant is pulled.
\* Faulty variant: the flag is not looked at
TakeWhileAlways(flag) == TRUE

TakeWhile(flag) == ~flag

\* The item stream::iter(participants) yields as its next-th.
\* Faulty variant: the participants are taken from the end of the list
StreamItemReversed(next) == NPart + 1 - next

StreamItem(next) == next

\* buffer_unordered polls the stream: the iterator is exhausted, or
\* take_while sees the flag and ends the stream, or the next participant's
\* progress bar and future are made and the future is pushed.
Admit ==
    /\ CanFill
    /\ IF run.next > NPart \/ ~TakeWhile(interrupted)
       THEN /\ run' = [run EXCEPT !.cut = TRUE]
            /\ UNCHANGED jobs
       ELSE /\ jobs' = [jobs EXCEPT ![StreamItem(run.next)].pc = "queued",
                                    ![StreamItem(run.next)].pb = "shown"]
            /\ run' = [run EXCEPT !.next = @ + 1]
    /\ ev' = NoEvent
    /\ UNCHANGED <<cfg, interrupted>>
    /\ UNCHANGED <<childVars, fsVars, cmdVars, tmpVars>>

\* First poll of a job's future: the resume check, then new_with_cancel,
\* which gets as far as outcome o.
JobStartAs(j, exists, o) ==
    LET seen == [NoEvent EXCEPT !.op = "JobStart", !.j = j, !.sawOut = exists] IN
    IF SkipOnResume(cfg.resume, exists)
    THEN Finish(j, "Skipped", OkUnit, [seen EXCEPT !.skipped = TRUE])
    ELSE LET c == NewWithCancel(o, j)
             built == [seen EXCEPT !.made = Made(o),
                                   !.left = IF c.kind = "Ok" THEN {} ELSE JobLeft[o]]
         IN IF c.kind = "Ok"
            THEN /\ jobs' = [jobs EXCEPT ![j].pc = "waiting", ![j].elapsed = 0]
                 /\ ev' = built
                 /\ UNCHANGED run
            ELSE Finish(j, "Failed", c, built)

JobStart(j) ==
    /\ run.phase = "active" /\ ~CanFill
    /\ jobs[j].pc = "queued"
    /\ \E exists \in BOOLEAN, o \in ConstructOutcomes : JobStartAs(j, exists, o)
    /\ UNCHANGED <<cfg, interrupted>>
    /\ UNCHANGED <<childVars, fsVars, cmdVars, tmpVars>>

\* The same step with new_with_cancel computed from the code of src/bids
\* on the tree disk.src; fsev records what the environment did.
JobStartBuilt(j) ==
    /\ run.phase = "active" /\ ~CanFill
    /\ jobs[j].pc = "queued"
    /\ \E exists \in BOOLEAN, canon \in {None, Some(SrcRoot)}, failAt \in {0, 1},
          fails \in {{}, {"TempDir"}} :
         LET b == NewWithCancelSteps(disk.src, fails, canon, failAt) IN
         /\ JobStartAs(j, exists, b.o)
         /\ fsev' = [NoFsEvent EXCEPT !.op = "new_with_cancel", !.canon = canon,
                                      !.failAt = failAt, !.fails = fails,
                                      !.res = b.bids]
    /\ UNCHANGED <<cfg, interrupted>>
    /\ UNCHANGED <<disk, heap, todo>>
    /\ UNCHANGED <<childVars, cmdVars, tmpVars>>

\* The ways the tool ends: with success, with a failure code, by a signal.
ToolStatuses == {Some(0), Some(1), None}

\* The tool's process as a poll finds it: its status and whether its
\* pipes have been read to the end are looked at only now.
ProcAt(job, st, eof) ==
    [exited |-> IF job.exited THEN Some(st) ELSE None, eof |-> eof]

\* Mriqc1Process::wait resolved with ret: how the job ended.
ClassOf(ret, res) ==
    IF res.kind # "Ok" THEN "Failed"
    ELSE IF IsSome(ret.how_cancelled) THEN "CancelledOk"
    ELSE "Succeeded"

\* A later poll of a job's future: one cycle of wait_with_output().
JobPoll(j) ==
    /\ run.phase = "active" /\ ~CanFill
    /\ jobs[j].pc = "waiting"
    /\ \E err \in BOOLEAN, quiet \in BOOLEAN,
          eof \in IF jobs[j].exited THEN BOOLEAN ELSE {FALSE},
          st \in IF jobs[j].exited THEN ToolStatuses ELSE {None} :
         LET c == CancelOnInterruptOrTimeout(interrupted, cfg.timeout, jobs[j].elapsed)
             r == PollChildWaitWithOutput(NewChild, ProcAt(jobs[j], st, eof), err)
             p == ChildWaitOutputFuturePoll(None, ChildId(NewChild), c, r)
             e == [NoEvent EXCEPT !.op = "JobPoll", !.j = j, !.answer = c, !.out = p.ret,
                                  !.sig = p.sig, !.exited = jobs[j].exited,
                                  !.expired = jobs[j].expired,
                                  !.made = Made("ok"),
                                  !.note = TimedOutNote(cfg.timeout, jobs[j].elapsed, quiet)]
             res == Mriqc1Wait(p.ret, Cmd, Args(j))
         IN IF p.ret.tag = "Pending"
            THEN /\ ev' = e
                 /\ UNCHANGED <<jobs, run>>
            ELSE Finish(j, ClassOf(p.ret, res), res, [e EXCEPT !.left = JobLeft["ok"]])
    /\ UNCHANGED <<cfg, interrupted>>
    /\ UNCHANGED <<childVars, fsVars, cmdVars, tmpVars>>

\* The stream is finished and the buffer empty: try_for_each returns Ok
\* and the main progress bar is finished.
StreamEnd ==
    /\ run.phase = "active"
    /\ run.cut /\ InProgress = {}
    /\ run' = [run EXCEPT !.phase = "ended", !.main_pb = "finished"]
    /\ ev' = NoEvent
    /\ UNCHANGED <<cfg, interrupted, jobs>>
    /\ UNCHANGED <<childVars, fsVars, cmdVars, tmpVars>>

\* What main returns once try_for_each has returned Ok.
\* Faulty variant: the flag is not looked at
FinalOutcomeIgnoresFlag(flag) == "CompletedOk"

FinalOutcome(flag) == IF flag THEN "Interrupted" ELSE "CompletedOk"

\* The end of main: the flag is read once more.
Conclude ==
    /\ run.phase = "ended"
    /\ run' = [run EXCEPT !.phase = "done", !.outcome = FinalOutcome(interrupted)]
    /\ ev' = NoEvent
    /\ UNCHANGED <<cfg, interrupted, jobs>>
    /\ UNCHANGED <<childVars, fsVars, cmdVars, tmpVars>>

\* The signal task: ctrl_c() returns and the flag is stored.
Interrupt ==
    /\ run.phase # "done"
    /\ ~interrupted
    /\ interrupted' = TRUE
    /\ ev' = NoEvent
    /\ UNCHANGED <<cfg, jobs, run>>
    /\ UNCHANGED <<childVars, fsVars, cmdVars, tmpVars>>

\* Time passes.
Tick ==
    /\ run.phase # "done"
    /\ jobs' = Elapse(jobs, 1)
    /\ ev' = NoEvent
    /\ UNCHANGED <<cfg, interrupted, run>>
    /\ UNCHANGED <<childVars, fsVars, cmdVars, tmpVars>>

\* The tool's process of job j terminates.
ToolExit(j) ==
    /\ jobs[j].pc = "waiting"
    /\ ~jobs[j].exited
    /\ jobs' = [jobs EXCEPT ![j].exited = TRUE,
                            ![j].expired =
                                /\ IsSome(cfg.timeout)
                                /\ jobs[j].elapsed > Unwrap(cfg.timeout)]
    /\ ev' = NoEvent
    /\ UNCHANGED <<cfg, interrupted, run>>
    /\ UNCHANGED <<childVars, fsVars, cmdVars, tmpVars>>

---------------------------------------------------------------------------
(* Specifications                                                          *)

Configs ==
    [n_par : 1..MaxPar, resume : BOOLEAN, werror : BOOLEAN,
     timeout : {None} \cup {Some(t) : t \in 0..MaxTimeout}]

InitRun == [phase |-> "active", next |-> 1, cut |-> FALSE,
            outcome |-> "none", main_pb |-> "shown"]

InitChild ==
    /\ child = NewChild
    /\ proc = [exited |-> None, eof |-> FALSE]
    /\ fut = NoFuture
    /\ hist = [sigs |-> <<>>, nwaits |-> 0, fired |-> FALSE, preempted |-> FALSE,
               last |-> [op |-> "none", tag |-> "none", how_cancelled |-> None, val |-> None],
               cycle |-> NoCycle, twin |-> NoTwin]

InitFs ==
    /\ disk = [src |-> SrcNames, made |-> {}]
    /\ heap = NoHeap
    /\ todo = <<>>
    /\ fsev = NoFsEvent
    /\ cmdl = NoCommandLine
    /\ tmp = NoTemp

\* AtomicBool::new(false)
\* Faulty variant: the flag starts set
InterruptedNewSet == TRUE

InterruptedNew == FALSE

InitMain ==
    /\ interrupted = InterruptedNew
    /\ jobs = [j \in Participants |-> NewJob]
    /\ run = InitRun
    /\ ev = NoEvent

\* A run of main, for every setting of the options.
Init ==
    /\ InitChild
    /\ cfg \in Configs
    /\ InitMain
    /\ InitFs

Next ==
    \/ Admit
    \/ \E j \in Participants : JobStart(j)
    \/ \E j \in Participants : JobPoll(j)
    \/ StreamEnd
    \/ Conclude
    \/ Interrupt
    \/ Tick
    \/ \E j \in Participants : ToolExit(j)

Spec == Init /\ [][Next]_vars

\* One supervised child; main does not run.
InitSup ==
    /\ InitChild
    /\ cfg = [n_par |-> 1, resume |-> FALSE, werror |-> FALSE, timeout |-> None]
    /\ InitMain
    /\ InitFs

NextChild ==
    \/ Wait
    \/ WaitPoll
    \/ TryWait
    \/ WaitWithOutput
    \/ WaitOutputPoll
    \/ ProcExit
    \/ PipeEof

SpecChild == InitSup /\ [][NextChild]_vars

\* The values of src/bids made and dropped by a caller, for every set of
\* entries the shadowed tree can have; main does not run.
InitShadow ==
    /\ InitChild
    /\ cfg = [n_par |-> 1, resume |-> FALSE, werror |-> FALSE, timeout |-> None]
    /\ InitMain
    /\ disk \in [src : SUBSET SrcNames, made : {{}}]
    /\ heap = NoHeap
    /\ todo = <<>>
    /\ fsev = NoFsEvent
    /\ cmdl = NoCommandLine
    /\ tmp = NoTemp

NextFs ==
    \/ TempDirNewIn
    \/ ShadowBidsNewCall
    \/ ShadowBidsNewWithParentCall
    \/ BidsParticipantNewCall
    \/ DropTempDir
    \/ DropShadowBids
    \/ DropBidsParticipant
    \/ Drop

SpecFs == InitShadow /\ [][NextFs]_vars

\* One job's command line, for every participant id, tool path and list
\* of extra arguments; nothing else runs.
InitArgs ==
    /\ InitChild
    /\ cfg = [n_par |-> 1, resume |-> FALSE, werror |-> FALSE, timeout |-> None]
    /\ InitMain
    /\ disk = [src |-> SrcNames, made |-> {}]
    /\ heap = NoHeap
    /\ todo = <<>>
    /\ fsev = NoFsEvent
    /\ \E p \in ParticipantIds, m \in MriqcOptions, x \in ExtraArgLists :
         cmdl = [NoCommandLine EXCEPT
                   !.stage = "options",
                   !.options = Some([participant |-> p, mriqc |-> m, extra_args |-> x])]
    /\ tmp = NoTemp

NextArgs ==
    \/ SpawnTool
    \/ ProcessWait

SpecArgs == InitArgs /\ [][NextArgs]_vars

\* A run of main from its start to the settlement of the jobs'
\* constructions, with new_with_cancel computed from the code of src/bids
\* for every set of entries of the BIDS tree; the operator does not
\* interrupt.  No construction returns Ok (see C18), so no tool runs and
\* no job's wait is polled.
InitE2E ==
    /\ InitChild
    /\ cfg \in Configs
    /\ InitMain
    /\ disk \in [src : SUBSET SrcNames, made : {{}}]
    /\ heap = NoHeap
    /\ todo = <<>>
    /\ fsev = NoFsEvent
    /\ cmdl = NoCommandLine
    /\ tmp = NoTemp

NextE2E ==
    \/ Admit
    \/ \E j \in Participants : JobStartBuilt(j)
    \/ StreamEnd
    \/ Conclude

SpecE2E == InitE2E /\ [][NextE2E]_vars

\* A NamedTempDir and a TempSymlink under every sequence of calls, with
\* system calls that may fail and someone else making entries at free
\* paths; nothing else runs.
InitTemp ==
    /\ InitChild
    /\ cfg = [n_par |-> 1, resume |-> FALSE, werror |-> FALSE, timeout |-> None]
    /\ InitMain
    /\ InitFs

NextTemp ==
    \/ CallNamedTempDirNew
    \/ CallNamedTempDirClose
    \/ CallNamedTempDirCloseAll
    \/ CallNamedTempDirDrop
    \/ CallTempSymlinkNew
    \/ CallTempSymlinkClose
    \/ CallTempSymlinkDrop
    \/ OtherCreates

SpecTemp == InitTemp /\ [][NextTemp]_vars

\* The end of a job: Mriqc1Process::wait has its value from
\* wait_with_output() and returns, and the fields left in the
\* Mriqc1Process are dropped, every removal failing or not.
WaitReturns ==
    /\ ~ev.settled
    /\ todo = <<>>
    /\ IsSome(heap.part)
    /\ \E ret \in WaitResults :
         LET res == Mriqc1Wait(ret, Cmd, Args(1)) IN
         ev' = [NoEvent EXCEPT !.op = "JobPoll", !.j = 1, !.settled = TRUE,
                               !.out = ret, !.res = res, !.class = ClassOf(ret, res),
                               !.made = Made("ok")]
    /\ heap' = [heap EXCEPT !.part = None]
    /\ todo' = BidsParticipantDrop(Unwrap(heap.shadow), Unwrap(heap.part))
    /\ fsev' = NoFsEvent
    /\ UNCHANGED <<cfg, interrupted, jobs, run, disk>>
    /\ UNCHANGED <<childVars, cmdVars, tmpVars>>

DropMayFail ==
    /\ todo # <<>>
    /\ \E fail \in IF Removes(heap, todo) THEN BOOLEAN ELSE {FALSE} :
         LET x == DropStepMayFail(heap, disk.made, todo, fail) IN
         /\ heap' = x.heap
         /\ disk' = [disk EXCEPT !.made = x.made]
         /\ todo' = x.todo
         /\ fsev' = [NoFsEvent EXCEPT !.op = "drop", !.dst = Some(Head(todo).path),
                                      !.failAt = IF fail THEN 1 ELSE 0,
                                      !.before = disk.made]
    /\ UNCHANGED <<childVars, mainVars, cmdVars, tmpVars>>

\* A job whose new_with_cancel has returned Ok.
InitEnd ==
    /\ InitChild
    /\ cfg = [n_par |-> 1, resume |-> FALSE, werror |-> FALSE, timeout |-> None]
    /\ InitMain
    /\ disk = [src |-> SrcNames, made |-> JobBuilt("ok").made]
    /\ heap = JobBuilt("ok").heap
    /\ todo = <<>>
    /\ fsev = NoFsEvent
    /\ cmdl = NoCommandLine
    /\ tmp = NoTemp

NextEnd ==
    \/ WaitReturns
    \/ DropMayFail

SpecEnd == InitEnd /\ [][NextEnd]_vars

\* One call of new_with_cancel that fails, at every step at which it can
\* and for every set of entries of the BIDS tree, and the destructors that
\* run as the error is returned, one at a time.  The destination test of
\* ShadowBids::new is taken as passed (see C18).
BuildFail ==
    /\ todo = <<>>
    /\ disk.made = {}
    /\ \E o \in ConstructOutcomes \ {"ok"}, failAt \in FailPoints :
         /\ (o = "ShadowBids") <=> (failAt >= 1)
         /\ failAt > 1 => Exists(disk.src, DatasetEntries[failAt - 1])
         /\ o = "Spawn" => Exists(disk.src, SubStr)
         /\ LET b == FailedBuild(disk.src, o, failAt) IN
              /\ disk' = [disk EXCEPT !.made = b.made]
              /\ heap' = b.heap
              /\ todo' = b.todo
              /\ fsev' = [NoFsEvent EXCEPT !.op = "new_with_cancel", !.fails = {o},
                                           !.failAt = failAt, !.res = b.bids]
              /\ ev' = [NoEvent EXCEPT !.op = "JobStart", !.j = 1, !.made = Made(o),
                                       !.res = NewWithCancel(o, 1)]
    /\ UNCHANGED <<cfg, interrupted, jobs, run>>
    /\ UNCHANGED <<childVars, cmdVars, tmpVars>>

InitBuild ==
    /\ InitChild
    /\ cfg = [n_par |-> 1, resume |-> FALSE, werror |-> FALSE, timeout |-> None]
    /\ InitMain
    /\ disk \in [src : SUBSET SrcNames, made : {{}}]
    /\ heap = NoHeap
    /\ todo = <<>>
    /\ fsev = NoFsEvent
    /\ cmdl = NoCommandLine
    /\ tmp = NoTemp

NextBuild ==
    \/ BuildFail
    \/ Drop

SpecBuild == InitBuild /\ [][NextBuild]_vars

\* A run of main without --werror in which the operator never interrupts
\* and the scheduler keeps running what it can run: the stream is polled,
\* a queued future is polled, a spawned tool terminates, and a future
\* whose wait can resolve is woken and resolves.  The passing of time is
\* not forced.
InitWarn ==
    /\ Init
    /\ ~cfg.werror

NextLive ==
    \/ Admit
    \/ \E j \in Participants : JobStart(j)
    \/ \E j \in Participants : JobPoll(j)
    \/ StreamEnd
    \/ Conclude
    \/ Tick
    \/ \E j \in Participants : ToolExit(j)

Fairness ==
    /\ WF_vars(Admit)
    /\ WF_vars(StreamEnd)
    /\ WF_vars(Conclude)
    /\ \A j \in Participants :
          /\ WF_vars(JobStart(j))
          /\ WF_vars(ToolExit(j))
          /\ WF_vars(JobPoll(j) /\ ev'.settled)

SpecLive == InitWarn /\ [][NextLive]_vars /\ Fairness

\* A run of main without --timeout in which the operator may interrupt,
\* under the assumption that the scheduler keeps polling: the stream, a
\* queued future, and every future waiting on its process (whether or not
\* anything has woken it).  The end of a tool is not forced.
InitInt ==
    /\ Init
    /\ cfg.timeout = None

NextInt ==
    \/ Admit
    \/ \E j \in Participants : JobStart(j)
    \/ \E j \in Participants : JobPoll(j)
    \/ StreamEnd
    \/ Conclude
    \/ Interrupt
    \/ \E j \in Participants : ToolExit(j)

FairnessPolled ==
    /\ WF_vars(Admit)
    /\ WF_vars(StreamEnd)
    /\ WF_vars(Conclude)
    /\ \A j \in Participants :
          /\ WF_vars(JobStart(j))
          /\ WF_vars(JobPoll(j))

SpecInt == InitInt /\ [][NextInt]_vars /\ FairnessPolled

---------------------------------------------------------------------------
(* Properties of the run of main (Spec)                                    *)

\* The jobs that have been admitted and have not settled.
AdmittedUnsettled ==
    {j \in Participants : jobs[j].pc \in {"queued", "waiting", "dropped"}}

\* C1: in every reachable state of a run the number of participant jobs
\* that have been admitted and have not yet settled is at most n_par, for
\* every n_par >= 1 and whatever the jobs do.
C1_AtMostNInFlight == Cardinality(AdmittedUnsettled) <= cfg.n_par

\* C1 witness: the buffer is full of jobs waiting on their processes
\* after an earlier job has settled and freed its slot, and a participant
\* is still waiting to be admitted.
C1_Witness ==
    /\ Cardinality({j \in Participants : jobs[j].pc = "waiting"}) = cfg.n_par
    /\ \E j \in Participants : jobs[j].pc = "settled"
    /\ run.phase = "active" /\ run.next <= NPart /\ ~run.cut

\* C8: Mriqc1Process::wait maps what the supervisor returned to the job's
\* result: cancelled -> Ok; not cancelled and status zero -> Ok; not
\* cancelled and a non-zero or signal-terminated exit -> ProcessWithOutput
\* with the command, the argument list, the exit code and the captured
\* stdout and stderr; an I/O error -> Process with the command and the
\* arguments and no output.
C8_WaitMapsOutcome ==
    (ev.op = "JobPoll" /\ ev.settled) =>
        /\ ev.out.tag \in {"Ok", "Err"}
        /\ (ev.out.tag = "Ok" /\ IsSome(ev.out.how_cancelled)) => ev.res = OkUnit
        /\ (ev.out.tag = "Ok" /\ ev.out.how_cancelled = None
                /\ Unwrap(ev.out.val).status = Some(0)) => ev.res = OkUnit
        /\ (ev.out.tag = "Ok" /\ ev.out.how_cancelled = None
                /\ Unwrap(ev.out.val).status # Some(0)) =>
              /\ ev.res.kind = "ProcessWithOutput"
              /\ ev.res.cmd = Cmd
              /\ ev.res.args = Args(ev.j)
              /\ ev.res.status = Unwrap(ev.out.val).status
              /\ ev.res.stdout = Some(Unwrap(ev.out.val).stdout)
              /\ ev.res.stderr = Some(Unwrap(ev.out.val).stderr)
        /\ ev.out.tag = "Err" =>
              /\ ev.res.kind = "Process"
              /\ ev.res.cmd = Cmd
              /\ ev.res.args = Args(ev.j)
              /\ ev.res.stdout = None /\ ev.res.stderr = None

\* C8 witness: a tool killed by a signal gives ProcessWithOutput without
\* an exit code.
C8_Witness ==
    /\ ev.op = "JobPoll" /\ ev.settled
    /\ ev.out.tag = "Ok" /\ ev.out.how_cancelled = None
    /\ ev.res.kind = "ProcessWithOutput" /\ ev.res.status = None

C10_ResumeSkips ==
    [][/\ \A j \in Participants : jobs[j].pc = "settled" => jobs'[j].pc = "settled"
       /\ ev'.op = "JobStart" =>
            /\ (cfg.resume /\ ev'.sawOut) =>
                  /\ ev'.skipped /\ ev'.settled
                  /\ ev'.class = "Skipped"
                  /\ ev'.res = OkUnit /\ ~ev'.warned
                  /\ ev'.made = {}
                  /\ jobs'[ev'.j].pc = "settled"
            /\ ev'.skipped => (cfg.resume /\ ev'.sawOut)
            /\ ~ev'.skipped => (ev'.settled \/ "process" \in ev'.made)
      ]_vars

\* C10 witness: a participant has just been skipped while another one's
\* tool is running.
C10_Witness ==
    /\ ev.op = "JobStart" /\ ev.skipped /\ ev.sawOut
    /\ jobs[ev.j].pc = "settled"
    /\ \E i \in Participants : jobs[i].pc = "waiting"

\* C20: after a job is discarded nothing it made is left on the
\* filesystem, on every path: a construction failure at any step, a
\* successful or failed exit of the tool, a cancellation, an error of the
\* supervisor, and for a job dropped with the stream.
C20_NothingLeftBehind ==
    (ev.settled /\ ev.op \in {"JobStart", "JobPoll"}) =>
        /\ ev.left = {}
        /\ ev.class \in {"Skipped", "Succeeded", "CancelledOk", "Failed"}
        /\ ev.skipped => ev.made = {}

\* C20 witness: a cancelled job had its temporary directory, its view,
\* its participant link and its process.
C20_Witness ==
    /\ ev.settled /\ ev.op = "JobPoll"
    /\ ev.class = "CancelledOk"
    /\ ev.made = Made("ok")
    /\ JobView \in PathsOf(JobBuilt("ok").made)
    /\ ev.left = {}

\* C11: once the interrupt flag is set, no participant that has not yet
\* been admitted is ever admitted: no step taken with the flag set pulls
\* a participant from the stream.
C11_NoAdmissionAfterInterrupt ==
    [][interrupted =>
          /\ run'.next = run.next
          /\ \A j \in Participants :
                jobs[j].pc = "pending" => jobs'[j].pc = "pending"
      ]_vars

\* C11 witness: the flag was set while a job was running; the stream has
\* been cut with a participant never admitted.
C11_Witness ==
    /\ interrupted /\ run.cut
    /\ run.next <= NPart
    /\ jobs[NPart].pc = "pending"
    /\ \E j \in Participants : jobs[j].pc \in {"waiting", "settled"}

\* C12: with --werror, when the job of participant p fails the run
\* reports failure in that step, the outcome stays, and from then on no
\* participant is admitted: those never admitted all come after p.
C12_FailFastStopsAdmission ==
    [][/\ (cfg.werror /\ ev'.settled /\ ev'.res.kind # "Ok") =>
             /\ run'.outcome = "Failed" /\ run'.phase = "done"
             /\ \A i \in Participants :
                   (i > ev'.j /\ jobs[i].pc = "pending") => jobs'[i].pc = "pending"
             /\ \A i \in Participants : jobs'[i].pc = "pending" => i > ev'.j
       /\ run.outcome = "Failed" =>
             /\ run'.outcome = "Failed"
             /\ run'.next = run.next
             /\ \A i \in Participants :
                   jobs[i].pc = "pending" => jobs'[i].pc = "pending"
      ]_vars

\* C12 witness: with two jobs in flight the first participant's job has
\* failed; the run has failed, the other job was dropped and the third
\* participant was never admitted.
C12_Witness ==
    /\ cfg.werror /\ run.outcome = "Failed"
    /\ ev.settled /\ ev.j = 1 /\ ev.class = "Failed"
    /\ \E i \in Participants : jobs[i].pc = "dropped"
    /\ jobs[NPart].pc = "pending"

C24_EventsEmitted ==
    /\ \A j \in Participants :
          /\ jobs[j].pc # "pending" <=> jobs[j].pb # "none"
          /\ jobs[j].pc = "settled" => jobs[j].pb = "finished"
    /\ run.phase = "done" =>
          /\ run.main_pb = "finished"
          /\ \A j \in Participants : jobs[j].pb \in {"none", "finished"}

\* C25: the failure of one participant's job, at construction or of its
\* process, does not terminate, cancel or change another job that is in
\* flight at that moment, with and without --werror.
C25_FailureLeavesOthersAlone ==
    [][(ev'.settled /\ ev'.class = "Failed") =>
          \A i \in Participants \ {ev'.j} :
              jobs[i].pc \in {"queued", "waiting"} =>
                  /\ jobs'[i].pc = jobs[i].pc
                  /\ jobs'[i].exited = jobs[i].exited
                  /\ jobs'[i].expired = jobs[i].expired
      ]_vars

\* C26: the interrupt flag starts false, its only change is from false to
\* true, it never goes back, and the step that sets it is no step of a
\* job or of the orchestrator: the jobs, the run and the options are as
\* they were.
C26_FlagMonotonic ==
    /\ ~interrupted
    /\ [][/\ interrupted => interrupted'
          /\ interrupted' # interrupted =>
                /\ jobs' = jobs /\ run' = run /\ cfg' = cfg
                /\ ev'.op = "none"
          /\ ev'.op \in {"JobStart", "JobPoll"} => interrupted' = interrupted
         ]_vars

\* C26 witness: with the flag set and no timeout, a job's predicate read
\* the flag and the job was cancelled; the flag is still set.
C26_Witness ==
    /\ interrupted
    /\ cfg.timeout = None
    /\ ev.op = "JobPoll" /\ ev.answer = Some("Interrupt")
    /\ ev.class = "CancelledOk"

\* Of any two participants the earlier one's job has started (its tool is
\* spawned, its skip decided or its construction failed) if the later
\* one's has.
StartedInInputOrder ==
    \A i, j \in Participants :
        (i < j /\ jobs[j].pc \in {"waiting", "settled"}) =>
            jobs[i].pc \notin {"pending", "queued"}

\* C27 as claimed: participants are admitted and their jobs started in
\* input order: for i before j, both admitted, i's job is started before
\* j's.
C27_StartedInOrder == StartedInInputOrder

\* C27 as amended: participants are admitted in input order, one at a
\* time, each only after all before it; with n_par = 1 their jobs are
\* also started in input order.
C27_AdmittedInOrder ==
    /\ [](cfg.n_par = 1 => StartedInInputOrder)
    /\ [][\A j \in Participants :
             (jobs[j].pc = "pending" /\ jobs'[j].pc # "pending") =>
                 /\ jobs'[j].pc = "queued"
                 /\ \A i \in Participants : i < j => jobs[i].pc # "pending"
                 /\ \A k \in Participants : k > j => jobs'[k].pc = "pending"
         ]_vars

\* C27 witness: of two jobs in flight together the later participant's
\* has spawned its tool while the earlier one's has not started, and a
\* third participant is yet to be admitted.
C27_Witness ==
    /\ jobs[1].pc = "queued"
    /\ jobs[2].pc = "waiting"
    /\ jobs[NPart].pc = "pending"

---------------------------------------------------------------------------
(* Properties of the run of main with the jobs built by src/bids (SpecE2E) *)

\* The tree has dataset_description.json and the participant, and nothing
\* the job's construction asked of the system failed.
CleanStart ==
    /\ {"dataset_description.json", SubStr} \subseteq disk.src
    /\ fsev.op = "new_with_cancel"
    /\ fsev.canon = Some(SrcRoot)
    /\ fsev.failAt = 0 /\ fsev.fails = {}

\* C21: for a dataset root with dataset_description.json and sub-<id>
\* for every requested participant, any n_par >= 1 and no interrupt, every
\* job is constructed successfully: its temporary directory, view,
\* participant link and tool process are made, the job goes on to wait
\* for the tool, no job fails or is warned about, and the run does not
\* fail.
C21_EndToEnd ==
    (ev.op = "JobStart" /\ ~ev.skipped /\ CleanStart) =>
        /\ ev.made = Made("ok")
        /\ jobs[ev.j].pc = "waiting"
        /\ ~ev.settled /\ ~ev.warned
        /\ fsev.res.kind = "Ok"
        /\ run.outcome # "Failed"

---------------------------------------------------------------------------
(* Properties of the supervisor (SpecChild)                                *)

\* C2: once a CancellableChild has recorded a real exit status, it is
\* never overwritten or cleared, every later wait() and try_wait() returns
\* that status whatever the predicate would answer, and no cancellation
\* is recorded or signalled any more.
C2_ExitStatusPermanent ==
    [][IsSome(child.exit_status) =>
          /\ child'.exit_status = child.exit_status
          /\ child'.how_cancelled = child.how_cancelled
          /\ hist'.sigs = hist.sigs
          /\ hist'.last.op \in {"wait", "try_wait"} =>
                /\ hist'.last.tag = "Ok"
                /\ hist'.last.val = child.exit_status
                /\ hist'.last.val = proc.exited
                /\ hist'.last.how_cancelled = child.how_cancelled
      ]_vars

\* C2 witness: a second or later wait() returned the recorded status
\* without consulting the predicate or the process.
C2_Witness ==
    /\ IsSome(child.exit_status)
    /\ hist.nwaits > 1
    /\ hist.cycle.op = "wait" /\ ~hist.cycle.polled
    /\ hist.last.op = "wait" /\ hist.last.val = child.exit_status

\* C3: once a cancellation reason has been recorded it is never changed
\* or cleared, and a recorded exit status is never changed or cleared,
\* over any sequence of wait() calls and predicate answers.
C3_RecordedStateImmutable ==
    [][/\ IsSome(child.how_cancelled) => child'.how_cancelled = child.how_cancelled
       /\ IsSome(child.exit_status) => child'.exit_status = child.exit_status
      ]_vars

\* C4: over any sequence of wait() and wait_with_output() calls the
\* supervisor sends at most one signal, and exactly one if wait() ever
\* returned a cancelled result.
C4_SignalExactlyOnce ==
    /\ Len(hist.sigs) <= 1
    /\ (hist.last.op = "wait" /\ hist.last.tag = "Ok" /\ hist.last.val = None)
          => Len(hist.sigs) = 1

\* C5: a result of wait() carries a cancellation reason if and only if in
\* some wait cycle of the process the predicate yielded a reason while
\* completion was pending.
C5_CancelledIffPreempted ==
    (hist.last.op = "wait" /\ hist.last.tag = "Ok") =>
        (IsSome(hist.last.how_cancelled) <=> hist.preempted)

\* C6: if the predicate never yields a reason, no signal is sent and every
\* value wait(), try_wait() or wait_with_output() returns comes after the
\* process has terminated, carries its real status (and, for
\* wait_with_output, its captured output) and no cancellation reason.
C6_NeverCancelled ==
    ~hist.fired =>
        /\ hist.sigs = <<>>
        /\ child.how_cancelled = None
        /\ hist.last.tag = "Ok" =>
              /\ hist.last.how_cancelled = None
              /\ IsSome(proc.exited)
              /\ hist.last.op \in {"wait", "try_wait"} => hist.last.val = proc.exited
              /\ hist.last.op = "output" =>
                    /\ IsSome(hist.last.val)
                    /\ Unwrap(hist.last.val).status = Unwrap(proc.exited)
                    /\ Unwrap(hist.last.val).stdout = "out"
                    /\ Unwrap(hist.last.val).stderr = "err"

\* C6 witness: wait() polled the process and returned the highest exit
\* code, the predicate having answered None throughout.
C6_Witness ==
    /\ ~hist.fired
    /\ hist.last.op = "wait" /\ hist.last.tag = "Ok"
    /\ hist.cycle.polled
    /\ hist.last.val = Some(Some(MaxExitCode))

\* C7: if the predicate yields a reason in a wait cycle in which the
\* process has not completed, wait() resolves in that cycle with that
\* reason and no exit status, and the signal sent is the reason's
\* (Interrupt -> SIGINT, Kill -> SIGKILL).
C7_CancelResolvesAtOnce ==
    (hist.cycle.op = "wait" /\ hist.cycle.polled
        /\ IsSome(hist.cycle.answer) /\ hist.cycle.inner = "Pending") =>
        /\ hist.last.op = "wait" /\ hist.last.tag = "Ok"
        /\ hist.last.how_cancelled = hist.cycle.answer
        /\ hist.last.val = None
        /\ hist.cycle.answer = Some("Interrupt") => hist.cycle.sig = Some("SIGINT")
        /\ hist.cycle.answer = Some("Kill") => hist.cycle.sig = Some("SIGKILL")

\* C7 witness: the predicate answered Kill while the process was running.
C7_Witness ==
    /\ hist.cycle.op = "wait" /\ hist.cycle.polled
    /\ hist.cycle.answer = Some("Kill") /\ hist.cycle.inner = "Pending"
    /\ hist.cycle.sig = Some("SIGKILL")
    /\ proc.exited = None

\* C23: every ExitStatus returned by wait() or try_wait() and every
\* Output returned by wait_with_output() that carries no how_cancelled
\* carries the status, or the output: the unwrap in Mriqc1Process::wait
\* on the branch that was not cancelled never meets None.
C23_PresentUnlessCancelled ==
    (hist.last.tag = "Ok" /\ hist.last.how_cancelled = None) =>
        /\ IsSome(hist.last.val)
        /\ hist.last.op = "output" =>
              Mriqc1Wait(hist.last, Cmd, Args(1)).kind \in {"Ok", "ProcessWithOutput"}

\* C23 witness: the predicate gave a reason in some cycle, and yet
\* wait_with_output() returned an Output without how_cancelled, the
\* output in it.
C23_Witness ==
    /\ hist.last.op = "output" /\ hist.last.tag = "Ok"
    /\ hist.last.how_cancelled = None
    /\ IsSome(hist.last.val)
    /\ hist.fired

\* A returned value reports a cancellation.
Cancelled(ret) == ret.tag = "Ok" /\ IsSome(ret.how_cancelled)

\* C28: wait_with_output() runs the same race as wait(): from every state
\* of the supervisor (new, or after wait() calls that recorded a
\* cancellation or an exit status) and for every predicate answer and
\* timing of the process, a cycle of it reports cancelled exactly when a
\* cycle of wait() would; when the cycle is resolved by the cancellation
\* there is no output, and when by the completion the output is there.
C28_SameRaceAsWait ==
    hist.cycle.op = "output" =>
        /\ Cancelled(hist.last) <=> Cancelled(hist.twin)
        /\ (hist.last.tag = "Ok" /\ hist.cycle.inner = "Pending") =>
              (hist.last.val = None /\ IsSome(hist.last.how_cancelled))
        /\ (hist.last.tag = "Ok" /\ hist.cycle.inner = "Ok") => IsSome(hist.last.val)

\* C29: if in one wait cycle the predicate yields a reason and the
\* process is found to have completed, completion wins: the real status
\* is returned (and recorded by wait()), the reason yielded in the cycle
\* is neither recorded nor reported (what is reported is what was
\* recorded before the cycle), and no signal is sent.
C29_CompletionWins ==
    [][(/\ hist'.cycle.polled /\ hist'.cycle.op \in {"wait", "output"}
        /\ IsSome(hist'.cycle.answer) /\ hist'.cycle.inner = "Ok") =>
          /\ hist'.last.tag = "Ok" /\ IsSome(hist'.last.val)
          /\ hist'.cycle.sig = None /\ hist'.sigs = hist.sigs
          /\ hist'.cycle.op = "wait" =>
                /\ hist'.last.val = proc.exited
                /\ child'.exit_status = proc.exited
                /\ child'.how_cancelled = child.how_cancelled
                /\ hist'.last.how_cancelled = child.how_cancelled
          /\ hist'.cycle.op = "output" =>
                /\ Unwrap(hist'.last.val).status = Unwrap(proc.exited)
                /\ fut'.how_cancelled = fut.how_cancelled
                /\ hist'.last.how_cancelled = fut.how_cancelled
      ]_vars

\* C29 witness: the predicate answered Kill in the cycle in which wait()
\* found the process exited; the status is returned, nothing was recorded
\* or sent.
C29_Witness ==
    /\ hist.cycle.op = "wait" /\ hist.cycle.polled
    /\ hist.cycle.answer = Some("Kill") /\ hist.cycle.inner = "Ok"
    /\ hist.last.how_cancelled = None /\ child.how_cancelled = None
    /\ hist.sigs = <<>>
    /\ hist.last.val = proc.exited

\* C36: when the cancellation branch resolves a cycle of wait() or of
\* wait_with_output(), the value is Ok with the reason and no exit status,
\* never an error, whatever became of the signal: a future that holds no
\* process identifier sends none, a future that holds one sends it, and the
\* value is the same when libc::kill returned -1 because the process behind
\* the identifier had already been reaped.
C36_CancelIgnoresDelivery ==
    (/\ hist.cycle.polled /\ hist.cycle.op \in {"wait", "output"}
     /\ IsSome(hist.cycle.answer) /\ hist.cycle.inner = "Pending") =>
        /\ hist.last.tag = "Ok"
        /\ hist.last.how_cancelled = hist.cycle.answer
        /\ hist.last.val = None
        /\ hist.cycle.id = None => (hist.cycle.sig = None /\ hist.cycle.kill = None)
        /\ IsSome(hist.cycle.id) =>
              /\ hist.cycle.sig = Some(SignalOf(Unwrap(hist.cycle.answer)))
              /\ hist.cycle.kill \in {Some(0), Some(-1)}

\* C36 witness: a cancelled cycle sent its signal to the identifier of a
\* process that had already been reaped, libc::kill returned -1, and the
\* cycle resolved with Ok, cancelled, no exit status.
C36_Witness ==
    /\ hist.cycle.polled /\ hist.cycle.inner = "Pending"
    /\ IsSome(hist.cycle.answer) /\ IsSome(hist.cycle.id)
    /\ hist.cycle.kill = Some(-1)
    /\ hist.last.tag = "Ok" /\ hist.last.val = None
    /\ hist.last.how_cancelled = hist.cycle.answer

---------------------------------------------------------------------------
(* Properties of the interrupted run (SpecInt)                             *)

\* C30: if the interrupt flag is set while jobs are running and every
\* waiting job gets another wait cycle, then the run finishes, and when it
\* has, every job that was running has left its wait: it has settled, or
\* (only with --werror, when another job's failure has ended the run) it
\* was dropped with the stream and so got no further cycle; and a wait
\* cycle made with the flag set never leaves the job waiting: it settles
\* CancelledOk if the process is still running, else with what the
\* process's completion gave.
C30_InterruptSettles ==
    /\ interrupted ~>
          /\ run.phase = "done"
          /\ \A j \in Participants :
                \/ jobs[j].pc \in {"pending", "settled"}
                \/ cfg.werror /\ jobs[j].pc = "dropped" /\ run.outcome = "Failed"
    /\ [][(interrupted /\ ev'.op = "JobPoll") =>
            /\ ev'.settled
            /\ jobs'[ev'.j].pc = "settled"
            /\ ev'.out.tag = "Pending" => FALSE
            /\ ev'.class = "CancelledOk" <=>
                  (ev'.out.tag = "Ok" /\ IsSome(ev'.out.how_cancelled))
            /\ ev'.class \in {"CancelledOk", "Succeeded", "Failed"}
            /\ ev'.class \in {"Succeeded", "Failed"} /\ ev'.out.tag = "Ok" =>
                  (ev'.exited /\ IsSome(ev'.out.val))
          ]_vars

\* C30 witness: the flag was set while two jobs were waiting on processes
\* that had not exited; a wait cycle has settled one of them CancelledOk
\* and the other is still waiting for its cycle.
C30_Witness ==
    /\ interrupted
    /\ ev.op = "JobPoll" /\ ev.settled /\ ev.class = "CancelledOk" /\ ~ev.exited
    /\ ev.sig = Some("SIGINT")
    /\ \E j \in Participants : jobs[j].pc = "waiting" /\ ~jobs[j].exited

---------------------------------------------------------------------------
(* Properties of the shadow BIDS tree (SpecFs)                             *)

\* The links of the participants, by their names.
ParticipantLinks(paths) == {l \in paths : FileName(l) = Some(SubStr)}

\* C15: the view is not torn down while a participant link into it still
\* exists: in every state, also between the steps of dropping a
\* BidsParticipant, the directory of every participant symlink that has
\* not been dropped yet is still there.
C15_ViewOutlivesParticipantLinks ==
    \A l \in ParticipantLinks(heap.live) :
        /\ Unwrap(PathParent(l)) \in PathsOf(disk.made)
        /\ l \in PathsOf(disk.made)

\* C16: BidsParticipant::new for a participant without sub-<id> in the
\* source returns MissingParticipant with the source root and the id, and
\* changes nothing: no link is made and the entries there are stay.
C16_MissingParticipant ==
    (fsev.op = "BidsParticipant::new" /\ SubStr \notin disk.src) =>
        /\ fsev.res = ErrMissingParticipant(SrcRoot, Pid)
        /\ disk.made = fsev.before
        /\ ParticipantLinks(PathsOf(disk.made)) = {}
        /\ heap.part = None
        /\ heap.shadowRefs = 1

\* C16 witness: the call failed in a view that holds links.
C16_Witness ==
    /\ fsev.op = "BidsParticipant::new"
    /\ fsev.res.kind = "MissingParticipant"
    /\ Cardinality(disk.made) > 2

\* The entries ShadowBids::new is to make at dst for the source entries.
ViewOf(srcHas, dst) ==
    {Dir(dst)} \cup
    {Link(Join(SrcRoot, RelPath(<<n>>)), Join(dst, RelPath(<<n>>))) :
        n \in srcHas \ {SubStr}}

\* C17: for every set of the three dataset entries present in the source,
\* ShadowBids::new succeeds (given a destination it accepts and a
\* filesystem that does not fail), and the view then holds one symlink per
\* present entry, of the same name and pointing at the source entry, and
\* nothing else: nothing for an absent entry, nothing for a participant.
\* An absent entry is never the cause of an error.
C17_ViewHoldsPresentEntries ==
    fsev.op = "new" =>
        /\ fsev.res.kind \in {"Ok", "HasParent", "FileSystem"}
        /\ fsev.res.kind = "Ok" =>
              /\ IsSome(heap.shadow)
              /\ disk.made \ fsev.before = ViewOf(disk.src, Unwrap(heap.shadow).path)
              /\ heap.live = PathsOf(ViewOf(disk.src, Unwrap(heap.shadow).path))
        /\ fsev.res.kind # "Ok" => disk.made = fsev.before
        /\ (/\ fsev.parent = None
            /\ fsev.failAt = 0
            /\ CanCreateDir(fsev.before, Unwrap(fsev.dst))) => fsev.res.kind = "Ok"
        /\ fsev.res.kind = "FileSystem" =>
              \/ Unwrap(fsev.res.path) =
                    (IF IsSome(fsev.parent)
                     THEN Join(Unwrap(fsev.parent), Unwrap(fsev.dst))
                     ELSE Unwrap(fsev.dst))
              \/ \E n \in disk.src : FileName(Unwrap(fsev.res.path)) = Some(n)

\* C17 witness: a view was made of a source that has sourcedata only.
C17_Witness ==
    /\ fsev.op = "new" /\ fsev.res.kind = "Ok"
    /\ disk.src = {"sourcedata", SubStr}
    /\ Cardinality(disk.made \ fsev.before) = 2

\* A bare name: relative and of one component.
BareName(path) == IsRelative(path) /\ Len(path.comps) = 1

\* C18: with a parent, ShadowBids::new fails with HasParent if and only
\* if the destination is not a bare name; a bare name is resolved to
\* <parent directory>/<name>.
C18_HasParentIffNotBare ==
    (fsev.op = "new" /\ IsSome(fsev.parent)) =>
        /\ fsev.res.kind = "HasParent" <=> ~BareName(Unwrap(fsev.dst))
        /\ (BareName(Unwrap(fsev.dst)) /\ fsev.res.kind = "Ok") =>
              Unwrap(heap.shadow).path = Join(Unwrap(fsev.parent), Unwrap(fsev.dst))

\* C19: ShadowBids::new_with_parent fails with Canonicalize exactly when
\* the source cannot be canonicalized or has no base name; for a source
\* with base name b it makes the view at <parent directory>/b, and fails
\* with no other error when the filesystem operations succeed.
C19_NewWithParent ==
    fsev.op = "new_with_parent" =>
        LET bad == fsev.canon = None \/ FileName(Unwrap(fsev.canon)) = None IN
        /\ fsev.res.kind = "Canonicalize" <=> bad
        /\ (~bad /\ fsev.failAt = 0) =>
              /\ fsev.res.kind = "Ok"
              /\ IsSome(heap.shadow)
              /\ Unwrap(heap.shadow).path =
                    Join(TmpPath, RelPath(<<Unwrap(FileName(Unwrap(fsev.canon)))>>))

---------------------------------------------------------------------------
(* Properties of NamedTempDir and TempSymlink (SpecTemp)                   *)

\* The entries at or below path.
TreeAt(fs, path) == {e \in fs : Below(path, e.path)}

\* The step is a call on a NamedTempDir (on = "NamedTempDir") or a
\* TempSymlink of the function op.
Called(on, op) == tmp'.last.on = on /\ tmp'.last.op = op

\* C32: NamedTempDir::new on a path that exists fails with DirCreateError
\* carrying the path and makes no value, and TempSymlink::new on a
\* destination that exists fails with SymlinkCreateError and makes no
\* value; the existing entry and what is in it stay, in that call and in
\* every later call of this component.
C32_ExistingPathRefused ==
    [][/\ (Called("NamedTempDir", "new") /\ TmpDirPath \in PathsOf(tmp.fs)) =>
             /\ tmp'.last.res = DirCreateError(TmpDirPath)
             /\ tmp'.dir = None
             /\ tmp'.fs = tmp.fs
       /\ (Called("TempSymlink", "new") /\ TmpLinkDst \in PathsOf(tmp.fs)) =>
             /\ tmp'.last.res = SymlinkCreateError(TmpLinkSrc, TmpLinkDst)
             /\ tmp'.link = None
             /\ tmp'.fs = tmp.fs
       /\ \A p \in {TmpDirPath, TmpLinkDst} :
             (tmp'.last.on # "none" /\ \E e \in tmp.fs : e.path = p /\ e.by = "other") =>
                TreeAt(tmp'.fs, p) = TreeAt(tmp.fs, p)
      ]_vars

\* C32 witness: NamedTempDir::new was refused at a directory someone else
\* had made and put a file in, with no failure of the system call's own.
C32_Witness ==
    /\ tmp.last = Call("NamedTempDir", "new", FALSE, DirCreateError(TmpDirPath))
    /\ tmp.dir = None
    /\ Entry(TmpDirPath, "dir", "other") \in tmp.fs
    /\ Entry(TmpFilePath, "file", "other") \in tmp.fs

\* C33: NamedTempDir::close on a directory that is not empty fails with
\* DirRemoveError, leaves the directory and what is in it, and leaves the
\* value unclosed; a later close_all or drop whose removal does not fail
\* removes the tree.  Every close or close_all that fails, of a
\* NamedTempDir or of a TempSymlink, leaves the value unclosed and the
\* filesystem as it was.
C33_FailedCloseStaysOpen ==
    [][/\ (/\ Called("NamedTempDir", "close")
            /\ ~Unwrap(tmp.dir).closed
            /\ Inside(tmp.fs, TmpDirPath) # {}) =>
             /\ tmp'.last.res = DirRemoveError(TmpDirPath)
             /\ tmp'.fs = tmp.fs
             /\ ~Unwrap(tmp'.dir).closed
       /\ (/\ (Called("NamedTempDir", "close_all") \/ Called("NamedTempDir", "drop"))
            /\ ~Unwrap(tmp.dir).closed
            /\ ~tmp'.last.fail) =>
             /\ TreeAt(tmp'.fs, TmpDirPath) = {}
             /\ (tmp'.last.res = FsOk \/ TmpDirPath \notin PathsOf(tmp.fs))
       /\ (/\ (Called("NamedTempDir", "close") \/ Called("NamedTempDir", "close_all"))
            /\ tmp'.last.res # FsOk) =>
             /\ ~Unwrap(tmp'.dir).closed
             /\ tmp'.fs = tmp.fs
             /\ tmp'.last.res = DirRemoveError(TmpDirPath)
       /\ (Called("TempSymlink", "close") /\ tmp'.last.res # FsOk) =>
             /\ ~Unwrap(tmp'.link).closed
             /\ tmp'.fs = tmp.fs
             /\ tmp'.last.res = SymlinkRemoveError(TmpLinkSrc, TmpLinkDst)
      ]_vars

\* C33 witness: close was refused on a directory with a file in it, with
\* no failure of the system call's own; the value is unclosed.
C33_Witness ==
    /\ tmp.last = Call("NamedTempDir", "close", FALSE, DirRemoveError(TmpDirPath))
    /\ tmp.dir = Some([closed |-> FALSE, path |-> TmpDirPath])
    /\ Entry(TmpFilePath, "file", "other") \in tmp.fs
    /\ Entry(TmpDirPath, "dir", "self") \in tmp.fs

\* C34: once close or close_all has succeeded on a NamedTempDir or a
\* TempSymlink, every further close call returns Ok and changes nothing on
\* the filesystem, and dropping the value removes nothing: an entry
\* someone else has made at the path since is left alone.
C34_ClosedIsFinal ==
    [][/\ (tmp'.last.on = "NamedTempDir" /\ tmp'.last.op \in {"close", "close_all", "drop"}
            /\ Unwrap(tmp.dir).closed) =>
             /\ tmp'.last.res = FsOk
             /\ tmp'.fs = tmp.fs
             /\ tmp'.last.op # "drop" => Unwrap(tmp'.dir).closed
       /\ (tmp'.last.on = "TempSymlink" /\ tmp'.last.op \in {"close", "drop"}
            /\ Unwrap(tmp.link).closed) =>
             /\ tmp'.last.res = FsOk
             /\ tmp'.fs = tmp.fs
             /\ tmp'.last.op # "drop" => Unwrap(tmp'.link).closed
      ]_vars

\* C34 witness: a NamedTempDir was dropped, its removal not made to fail,
\* and at its path there is a directory someone else made after the close,
\* with a file in it.
C34_Witness ==
    /\ tmp.last = Call("NamedTempDir", "drop", FALSE, FsOk)
    /\ tmp.dir = None
    /\ Entry(TmpDirPath, "dir", "other") \in tmp.fs
    /\ Entry(TmpFilePath, "file", "other") \in tmp.fs

---------------------------------------------------------------------------
(* Properties of the end of a job (SpecEnd)                                *)

\* C35: a removal that fails while the job's values are dropped is
\* swallowed.  The result wait returned stays what it was computed from
\* the value of wait_with_output() (a success stays a success, a
\* cancellation stays Ok); the destructor that failed is over and the ones
\* after it still run, and a removal that does not fail takes its entry
\* away, so that in the end every owner has been released whatever
\* failed.  The removal of a link that the removal of its directory has
\* already taken away is such a failure.
C35_ReleaseFailuresSwallowed ==
    /\ [](ev.settled =>
            /\ ev.res = Mriqc1Wait(ev.out, Cmd, Args(1))
            /\ (ev.out.tag = "Ok" /\ IsSome(ev.out.how_cancelled)) =>
                  (ev.res = OkUnit /\ ev.class = "CancelledOk")
            /\ (ev.out.tag = "Ok" /\ ev.out.how_cancelled = None
                 /\ Success(Unwrap(ev.out.val).status)) =>
                  (ev.res = OkUnit /\ ev.class = "Succeeded")
            /\ todo = <<>> =>
                  (heap.live = {} /\ heap.temp = 0 /\ heap.shadow = None))
    /\ [][fsev'.op = "drop" =>
            /\ ev' = ev
            /\ Len(todo') >= Len(todo) - 1
            /\ SubSeq(todo', Len(todo') - Len(todo) + 2, Len(todo')) = Tail(todo)
            /\ Head(todo).op \in {"NamedTempDir", "TempSymlink"} =>
                  Unwrap(fsev'.dst) \notin heap'.live
            /\ (fsev'.failAt = 0 /\ Removes(heap, todo)) =>
                  Unwrap(fsev'.dst) \notin PathsOf(disk'.made)
            /\ fsev'.failAt = 1 => disk'.made = disk.made
          ]_vars

\* C35 witness: a cancelled job has been dropped to the end with every
\* removal failing: all it made is still there, no owner is left, and
\* its result is Ok.
C35_Witness ==
    /\ ev.settled /\ ev.class = "CancelledOk" /\ ev.res = OkUnit
    /\ todo = <<>>
    /\ heap.live = {} /\ heap.temp = 0
    /\ disk.made = JobBuilt("ok").made
    /\ fsev.op = "drop" /\ fsev.failAt = 1

---------------------------------------------------------------------------
(* Properties of a failed construction (SpecBuild)                         *)

\* The paths a job acquires, in the order of their acquisition.
AcquisitionOrder ==
    <<TmpPath, JobView>>
    \o [i \in 1..Len(DatasetEntries) |-> Join(JobView, RelPath(<<DatasetEntries[i]>>))]
    \o <<Join(JobView, RelPath(<<SubStr>>))>>

\* The owner of path has not been dropped.
Owned(path) == IF path = TmpPath THEN heap.temp > 0 ELSE path \in heap.live

---------------------------------------------------------------------------
(* Properties of the command line (SpecArgs)                               *)

\* C22: the argument list the job builds is the view's root, the output
\* directory, "participant", "--work-dir", the job's temporary directory,
\* "--participant-label", the participant id, and then the extra
\* arguments unchanged and in their order, for every list of extra
\* arguments; the child's current directory is the temporary directory;
\* and the list reported in a Process or ProcessWithOutput error is that
\* same list.
C22_ArgumentList ==
    cmdl.stage \in {"spawned", "failed", "done"} =>
        LET o == Unwrap(cmdl.options)
            c == Unwrap(cmdl.command)
        IN /\ Len(c.args) = 7 + Len(o.extra_args)
           /\ SubSeq(c.args, 1, 7) =
                 << <<"/", "work", "tmp", "bids">>, <<"/", "out">>, <<"participant">>,
                    <<"--work-dir">>, <<"/", "work", "tmp">>,
                    <<"--participant-label">>, <<o.participant>> >>
           /\ SubSeq(c.args, 8, Len(c.args)) = o.extra_args
           /\ c.current_dir = TmpPath
           /\ AsOsStr(c.current_dir) = c.args[5]
           /\ c.stdin = "null" /\ c.stdout = "piped" /\ c.stderr = "piped"
           /\ cmdl.res.kind \in {"Process", "ProcessWithOutput"} =>
                 /\ cmdl.res.args = c.args
                 /\ cmdl.res.cmd = c.program
           /\ cmdl.res.kind \in {"none", "Ok", "Process", "ProcessWithOutput"}

\* C22 witness: a tool given two different extra arguments exited with
\* a failure and the error carries the nine arguments.
C22_Witness ==
    /\ cmdl.stage = "done"
    /\ cmdl.res.kind = "ProcessWithOutput"
    /\ Len(cmdl.res.args) = 7 + MaxExtra
    /\ cmdl.res.args[8] # cmdl.res.args[7 + MaxExtra]

====
